---- MODULE Spec2Model ----
(***************************************************************************)
(* Trade compliance analysis and signal-outcome correlation engine of the  *)
(* reporting service: compliance scorer, exit classifier, rule evaluator,  *)
(* signal-outcome analyzer and the batch loops that drive them.            *)
(*                                                                         *)
(* Numbers.  Python floats are modelled as exact fixed-point integers:     *)
(*   - confidences in units of 1/ConfScale,                                *)
(*   - compliance scores in units of 1/ScoreScale,                         *)
(*   - returns (fractions and percentages alike) in units of 1/RetScale,   *)
(*     so 7 percent is 7 * RetScale as a percentage and 700 as a fraction. *)
(* ConfScale is a multiple of every possible pool size, so the mean of a   *)
(* pool of rule confidences is exact.                                      *)
(***************************************************************************)
EXTENDS Integers, Sequences, FiniteSets, TLC

\* ------------------------------------------------------------------ bounds
MaxRules == 5          \* external rules loaded into the evaluator
MaxAnalyses == 2       \* analyses handed to the signal-outcome analyzer
MaxPositions == 3      \* positions in one batch
MaxCalls == 2          \* repeated calls of a pure operation on one input
MaxBatch == 6          \* analyses of the batch a report ranks
MaxSignals == 3        \* signals delivered to the process of one command
MaxClock == 120        \* seconds the rules client's clock runs for

\* ------------------------------------------------------------ number scales
Abs(x) == IF x < 0 THEN -x ELSE x
Min(a, b) == IF a <= b THEN a ELSE b
Max(a, b) == IF a >= b THEN a ELSE b

RECURSIVE Gcd(_, _)
Gcd(a, b) == IF b = 0 THEN a ELSE Gcd(b, a % b)

RECURSIVE LcmUpTo(_)
LcmUpTo(n) == IF n <= 1 THEN 1 ELSE (LcmUpTo(n - 1) * n) \div Gcd(LcmUpTo(n - 1), n)

\* the fallback strategy pools at most 3 signals, the external one MaxRules
PoolLcm == LcmUpTo(Max(MaxRules, 3))
ConfScale == 100 * PoolLcm
ScoreScale == 10 * ConfScale
RetScale == 100 * 100

\* c hundredths as a confidence; h hundredths as a score
Conf(c) == c * PoolLcm
Score(h) == h * 10 * PoolLcm

RECURSIVE SumSeq(_)
SumSeq(s) == IF s = <<>> THEN 0 ELSE Head(s) + SumSeq(Tail(s))

\* Optional[str] fields hold NONE when unset
NONE == "None"

\* Optional numbers: Null is Python's None, Some(x) a present value
Null == <<>>
Some(x) == <<x>>
Val(o) == o[1]
\* Python truthiness of an Optional number: neither None nor zero
Truthy(o) == o # Null /\ Val(o) # 0

\* means of up to MaxAnalyses + 1 or MaxBatch values are exact in units of 1/AvgLcm
AvgLcm == LcmUpTo(Max(MaxAnalyses + 1, MaxBatch))
Mean(total, n) == IF n = 0 THEN 0 ELSE (total * AvgLcm) \div n
\* a win rate, in units of 1/RateScale
RateScale == 10 * AvgLcm
Rate(wins, n) == (wins * RateScale) \div n

\* format(x, ".0%") of the fraction num/den: the nearest whole percent,
\* an exact half going to the even one
PercentText(num, den) ==
    LET q == (100 * num) \div den
        r == (100 * num) % den
    IN IF 2 * r > den \/ (2 * r = den /\ q % 2 = 1) THEN q + 1 ELSE q

\* ------------------------------------------------------------------- enums
ExitTypes == {"profit_target", "stop_loss", "trailing_stop", "time_based", "manual", "unknown"}
ComplianceLevels == {"excellent", "good", "fair", "poor", "non_compliant"}

\* ------------------------------------------------------- compliance scorer
from_score_boundary_low(score) ==
    IF score * 100 > 90 * ScoreScale THEN "excellent"
    ELSE IF score * 100 > 70 * ScoreScale THEN "good"
    ELSE IF score * 100 > 50 * ScoreScale THEN "fair"
    ELSE IF score * 100 > 30 * ScoreScale THEN "poor"
    ELSE "non_compliant"

from_score(score) ==
    IF score * 100 >= 90 * ScoreScale THEN "excellent"
    ELSE IF score * 100 >= 70 * ScoreScale THEN "good"
    ELSE IF score * 100 >= 50 * ScoreScale THEN "fair"
    ELSE IF score * 100 >= 30 * ScoreScale THEN "poor"
    ELSE "non_compliant"

\* the three terms of the score, in units of 1/ScoreScale
EntryTerm(a) ==
    IF a.entry_signal_matched THEN a.entry_signal_confidence * 4 ELSE 0

\* position_size_deviation is kept in hundredths
SizingTerm(a) ==
    IF Truthy(a.recommended_shares) /\ Val(a.recommended_shares) > 0
    THEN (100 - Min(Abs(a.position_size_deviation), 100)) * 3 * PoolLcm
    ELSE Score(15)

ExitTerm(a) ==
    IF a.exit_type \in {"profit_target", "stop_loss"} THEN Score(30)
    ELSE IF a.exit_type = "trailing_stop" THEN Score(25)
    ELSE IF a.exit_type = "time_based" THEN Score(20)
    ELSE Score(10)

calculate_compliance_score_unclamped_sizing(a) ==
    LET sizing == IF Truthy(a.recommended_shares) /\ Val(a.recommended_shares) > 0
                  THEN (100 - Abs(a.position_size_deviation)) * 3 * PoolLcm
                  ELSE Score(15)
        s == EntryTerm(a) + sizing + ExitTerm(a)
    IN [a EXCEPT !.rule_compliance_score = s, !.compliance_level = from_score(s)]

calculate_compliance_score_flat_exit(a) ==
    LET s == EntryTerm(a) + SizingTerm(a)
             + (IF a.exit_type = "unknown" THEN Score(10) ELSE Score(30))
    IN [a EXCEPT !.rule_compliance_score = s, !.compliance_level = from_score(s)]

calculate_compliance_score(a) ==
    LET s == EntryTerm(a) + SizingTerm(a) + ExitTerm(a)
    IN [a EXCEPT !.rule_compliance_score = s, !.compliance_level = from_score(s)]

\* ---------------------------------------------------------------- dicts
\* A dict is a function on the keys it holds; Get is dict.get(key), GetOr is
\* dict.get(key, default)
EmptyDict == <<>>
Get(d, k) == IF k \in DOMAIN d THEN Some(d[k]) ELSE Null
GetOr(d, k, default) == IF k \in DOMAIN d THEN d[k] ELSE default
\* the dict holding the keys of the record opts whose value is not Null
MkDict(opts) == [k \in {j \in DOMAIN opts : opts[j] # Null} |-> Val(opts[k])]

\* --------------------------------------------------------- rules client
\* the default dict of get_exit_strategy, as fractions in units of 1/RetScale
DefaultExitStrategy == [profit_target |-> 700, stop_loss |-> 500]

\* store: [connected, symbol_rules : symbol -> dict, exit_strategy : dict or Null];
\* err is the redis or JSON failure this call meets: "none", "symbol_get"
\* (reading the symbol key) or "default_get" (reading the global key)
get_exit_strategy_global_first(store, symbol, err) ==
    IF ~store.connected THEN DefaultExitStrategy
    ELSE IF err = "symbol_get" THEN DefaultExitStrategy
    ELSE IF err = "default_get" THEN DefaultExitStrategy
    ELSE IF store.exit_strategy # Null THEN Val(store.exit_strategy)
    ELSE IF "exit_strategy" \in DOMAIN store.symbol_rules[symbol]
         THEN store.symbol_rules[symbol].exit_strategy
    ELSE DefaultExitStrategy

get_exit_strategy(store, symbol, err) ==
    IF ~store.connected THEN DefaultExitStrategy
    ELSE IF err = "symbol_get" THEN DefaultExitStrategy
    ELSE IF store.symbol_rules[symbol] # EmptyDict
            /\ "exit_strategy" \in DOMAIN store.symbol_rules[symbol]
         THEN store.symbol_rules[symbol].exit_strategy
    ELSE IF err = "default_get" THEN DefaultExitStrategy
    ELSE IF store.exit_strategy # Null THEN Val(store.exit_strategy)
    ELSE DefaultExitStrategy

\* -------------------------------------------------------- exit classifier
\* classifier: [rules_client : BOOLEAN, default_profit_threshold,
\*              default_stop_threshold]
_get_thresholds(classifier, store, symbol, err) ==
    IF classifier.rules_client
    THEN LET exit_strategy == get_exit_strategy(store, symbol, err)
         IN <<GetOr(exit_strategy, "profit_target", classifier.default_profit_threshold),
              -GetOr(exit_strategy, "stop_loss", Abs(classifier.default_stop_threshold))>>
    ELSE <<classifier.default_profit_threshold, classifier.default_stop_threshold>>

_check_trailing_stop_pattern(position, indicators) ==
    IF position.realized_pl_pct = Null THEN FALSE
    ELSE LET pl_pct == Val(position.realized_pl_pct) \div 100
             atr == Get(indicators, "atr_14")
             close == Get(indicators, "close")
             high == Get(indicators, "high")
         IN /\ -300 < pl_pct /\ pl_pct < 200
            /\ Truthy(atr) /\ Truthy(close) /\ Truthy(high)
            /\ (Val(high) - Val(close)) <= Val(atr) * 2

\* the decision steps of classify once the thresholds are resolved
ClassifyClosed_trailing_first(position, indicators, th) ==
    LET pl_pct == Val(position.realized_pl_pct) \div 100
    IN IF pl_pct >= th[1] THEN "profit_target"
       ELSE IF pl_pct <= th[2] THEN "stop_loss"
       ELSE IF indicators # EmptyDict /\ _check_trailing_stop_pattern(position, indicators)
            THEN "trailing_stop"
       ELSE IF Truthy(position.holding_days) /\ Val(position.holding_days) > 20
               /\ Abs(pl_pct) < 200
            THEN "time_based"
       ELSE "manual"

ClassifyClosed(position, indicators, th) ==
    LET pl_pct == Val(position.realized_pl_pct) \div 100
    IN IF pl_pct >= th[1] THEN "profit_target"
       ELSE IF pl_pct <= th[2] THEN "stop_loss"
       ELSE IF Truthy(position.holding_days) /\ Val(position.holding_days) > 20
               /\ Abs(pl_pct) < 200
            THEN "time_based"
       ELSE IF indicators # EmptyDict /\ _check_trailing_stop_pattern(position, indicators)
            THEN "trailing_stop"
       ELSE "manual"

\* the early return of classify (line 58)
ClassifyUnknown_needs_holding_days(position) ==
    \/ position.status # "closed"
    \/ position.realized_pl_pct = Null
    \/ position.holding_days = Null

ClassifyUnknown(position) ==
    position.status # "closed" \/ position.realized_pl_pct = Null

\* classify: [exit_type, thresholds], thresholds Null when never resolved
classify(classifier, store, err, position, indicators) ==
    IF ClassifyUnknown(position)
    THEN [exit_type |-> "unknown", thresholds |-> Null]
    ELSE LET th == _get_thresholds(classifier, store, position.symbol, err)
         IN [exit_type |-> ClassifyClosed(position, indicators, th),
             thresholds |-> Some(th)]

\* ----------------------------------------------------------- rule evaluator
RuleName(i) == "rule_" \o ToString(i)
LoadedRules(n) == [i \in 1..n |-> RuleName(i)]

\* RuleEvaluator.__init__ (lines 42-48)
FreshEvaluator(has_client) ==
    [rules_client |-> has_client, rules |-> <<>>, initialized |-> FALSE]

\* env: [has_decision_engine, use_redis_rules,
\*       redis : [config : BOOLEAN, rules : Null or Some(n)]   get_config and the load of it
\*       yaml  : Null or Some(n)]                              the load of the YAML file
\* a load that raises is Null, one that succeeds the number of rules it yields
initialize_redis_failure_keeps_fallback(ev, env) ==
    IF ~env.has_decision_engine THEN [ev EXCEPT !.initialized = TRUE]
    ELSE IF env.use_redis_rules /\ ev.rules_client /\ env.redis.config
         THEN IF env.redis.rules # Null
              THEN [ev EXCEPT !.rules = LoadedRules(Val(env.redis.rules)),
                              !.initialized = TRUE]
              ELSE [ev EXCEPT !.initialized = TRUE]
    ELSE IF env.yaml # Null
         THEN [ev EXCEPT !.rules = LoadedRules(Val(env.yaml)), !.initialized = TRUE]
    ELSE [ev EXCEPT !.initialized = TRUE]

initialize(ev, env) ==
    IF ~env.has_decision_engine THEN [ev EXCEPT !.initialized = TRUE]
    ELSE IF env.use_redis_rules /\ ev.rules_client /\ env.redis.config
            /\ env.redis.rules # Null
         THEN [ev EXCEPT !.rules = LoadedRules(Val(env.redis.rules)),
                         !.initialized = TRUE]
    ELSE IF env.yaml # Null
         THEN [ev EXCEPT !.rules = LoadedRules(Val(env.yaml)), !.initialized = TRUE]
    ELSE [ev EXCEPT !.initialized = TRUE]

\* the value initialize hands back: its four return statements (lines 55,
\* 69, 86, 92); the two except clauses swallow every Exception, and
\* RulesClient.get_config swallows the Redis and JSON errors itself
initialize_returns(ev, env) ==
    IF ~env.has_decision_engine THEN TRUE
    ELSE IF env.use_redis_rules /\ ev.rules_client /\ env.redis.config
            /\ env.redis.rules # Null
         THEN TRUE
    ELSE IF env.yaml # Null THEN TRUE
    ELSE TRUE

\* what one rule does when asked: kind is "cannot_evaluate" (can_evaluate is
\* false), "raises_can_evaluate", "raises_evaluate" or "result"
RuleOutcome(kind, triggered, signal, confidence) ==
    [kind |-> kind, triggered |-> triggered, signal |-> signal, confidence |-> confidence]

RuleEvaluation(name, triggered, signal, confidence) ==
    [rule_name |-> name, triggered |-> triggered, signal_type |-> signal,
     confidence |-> confidence]

\* the loop with its try around the whole loop: the first raise ends it
RECURSIVE RuleLoopEvaluations_raise_ends_loop(_, _, _)
RuleLoopEvaluations_raise_ends_loop(rules, outcomes, i) ==
    IF i > Len(rules) THEN <<>>
    ELSE IF outcomes[i].kind \in {"raises_can_evaluate", "raises_evaluate"} THEN <<>>
    ELSE (IF outcomes[i].kind = "result"
          THEN <<RuleEvaluation(rules[i], outcomes[i].triggered, outcomes[i].signal,
                                outcomes[i].confidence)>>
          ELSE <<>>) \o RuleLoopEvaluations_raise_ends_loop(rules, outcomes, i + 1)

\* the evaluations list the loop over self._rules builds (lines 163-191)
RECURSIVE RuleLoopEvaluations(_, _, _)
RuleLoopEvaluations(rules, outcomes, i) ==
    IF i > Len(rules) THEN <<>>
    ELSE (IF outcomes[i].kind = "result"
          THEN <<RuleEvaluation(rules[i], outcomes[i].triggered, outcomes[i].signal,
                                outcomes[i].confidence)>>
          ELSE <<>>) \o RuleLoopEvaluations(rules, outcomes, i + 1)

\* buy_signals (sig = "BUY") or sell_signals (sig = "SELL") of that loop
RECURSIVE RuleLoopSignals(_, _, _)
RuleLoopSignals(outcomes, sig, i) ==
    IF i > Len(outcomes) THEN <<>>
    ELSE (IF outcomes[i].kind = "result" /\ outcomes[i].triggered
             /\ outcomes[i].signal = sig
          THEN <<outcomes[i].confidence>>
          ELSE <<>>) \o RuleLoopSignals(outcomes, sig, i + 1)

EvalResult(evaluations, signal, confidence) ==
    [evaluations |-> evaluations, signal |-> signal, confidence |-> confidence]

\* lines 193-203
DominantWithRules_strict_majority(evaluations, buy_signals, sell_signals) ==
    IF buy_signals # <<>> /\ Len(buy_signals) > Len(sell_signals)
    THEN EvalResult(evaluations, "BUY",
            Min(ConfScale, SumSeq(buy_signals) \div Len(buy_signals)
                            + Min(Conf(15), Conf(5) * (Len(buy_signals) - 1))))
    ELSE IF sell_signals # <<>>
    THEN EvalResult(evaluations, "SELL", SumSeq(sell_signals) \div Len(sell_signals))
    ELSE EvalResult(evaluations, NONE, 0)

DominantWithRules_uncapped(evaluations, buy_signals, sell_signals) ==
    IF buy_signals # <<>> /\ Len(buy_signals) >= Len(sell_signals)
    THEN EvalResult(evaluations, "BUY",
            SumSeq(buy_signals) \div Len(buy_signals)
              + Min(Conf(15), Conf(5) * (Len(buy_signals) - 1)))
    ELSE IF sell_signals # <<>>
    THEN EvalResult(evaluations, "SELL", SumSeq(sell_signals) \div Len(sell_signals))
    ELSE EvalResult(evaluations, NONE, 0)

DominantWithRules(evaluations, buy_signals, sell_signals) ==
    IF buy_signals # <<>> /\ Len(buy_signals) >= Len(sell_signals)
    THEN LET avg_confidence == SumSeq(buy_signals) \div Len(buy_signals)
             consensus_boost == Min(Conf(15), Conf(5) * (Len(buy_signals) - 1))
         IN EvalResult(evaluations, "BUY", Min(ConfScale, avg_confidence + consensus_boost))
    ELSE IF sell_signals # <<>>
    THEN EvalResult(evaluations, "SELL", SumSeq(sell_signals) \div Len(sell_signals))
    ELSE EvalResult(evaluations, NONE, 0)

_evaluate_with_rules(rules, outcomes) ==
    DominantWithRules(RuleLoopEvaluations(rules, outcomes, 1),
                      RuleLoopSignals(outcomes, "BUY", 1),
                      RuleLoopSignals(outcomes, "SELL", 1))

\* the four fixed checks (lines 215-277), each <<>> or one evaluation
FallbackTrend(indicators) ==
    LET close == GetOr(indicators, "close", 0)
        sma_200 == Get(indicators, "sma_200")
    IN IF Truthy(sma_200) /\ close > Val(sma_200)
       THEN <<RuleEvaluation("trend_following", TRUE, "BUY", Conf(60))>>
       ELSE IF Truthy(sma_200) /\ close < Val(sma_200)
       THEN <<RuleEvaluation("trend_following", TRUE, "SELL", Conf(50))>>
       ELSE <<>>

FallbackCrossover(indicators) ==
    LET sma_200 == Get(indicators, "sma_200")
        sma_50 == Get(indicators, "sma_50")
    IN IF Truthy(sma_50) /\ Truthy(sma_200) /\ Val(sma_50) > Val(sma_200)
       THEN <<RuleEvaluation("moving_average_crossover", TRUE, "BUY", Conf(55))>>
       ELSE <<>>

FallbackRsi(indicators) ==
    LET rsi == Get(indicators, "rsi_14")
    IN IF Truthy(rsi) /\ Val(rsi) < 30
       THEN <<RuleEvaluation("rsi_oversold", TRUE, "BUY", Conf(65))>>
       ELSE IF Truthy(rsi) /\ Val(rsi) > 70
       THEN <<RuleEvaluation("rsi_overbought", TRUE, "SELL", Conf(60))>>
       ELSE <<>>

\* the confidences of the evaluations of one signal type, in order
RECURSIVE SignalsOf(_, _)
SignalsOf(evaluations, sig) ==
    IF evaluations = <<>> THEN <<>>
    ELSE (IF Head(evaluations).signal_type = sig
          THEN <<Head(evaluations).confidence>> ELSE <<>>)
         \o SignalsOf(Tail(evaluations), sig)

\* lines 279-288
DominantFallback(evaluations, buy_signals, sell_signals) ==
    IF buy_signals # <<>> /\ Len(buy_signals) >= Len(sell_signals)
    THEN EvalResult(evaluations, "BUY", SumSeq(buy_signals) \div Len(buy_signals))
    ELSE IF sell_signals # <<>>
    THEN EvalResult(evaluations, "SELL", SumSeq(sell_signals) \div Len(sell_signals))
    ELSE EvalResult(evaluations, NONE, 0)

_evaluate_fallback(indicators) ==
    LET evaluations == FallbackTrend(indicators) \o FallbackCrossover(indicators)
                         \o FallbackRsi(indicators)
    IN DominantFallback(evaluations, SignalsOf(evaluations, "BUY"),
                        SignalsOf(evaluations, "SELL"))

\* the branch of evaluate_at_time (line 137) for an initialized evaluator
UsesRules(ev, env) == env.has_decision_engine /\ ev.rules # <<>>

\* evaluate_at_time: the evaluator after the call and what the call returns
evaluate_at_time(ev, env, indicators, outcomes) ==
    LET ev1 == IF ev.initialized THEN ev ELSE initialize(ev, env)
    IN [evaluator |-> ev1,
        result |-> IF UsesRules(ev1, env)
                   THEN _evaluate_with_rules(ev1.rules, outcomes)
                   ELSE _evaluate_fallback(indicators)]

\* ------------------------------------------------- signal-outcome analyzer
\* Python's "a or b" on two optional numbers
Or(a, b) == IF Truthy(a) THEN a ELSE b

is_winner(p) == p.realized_pl # Null /\ Val(p.realized_pl) > 0

\* sorted(keys): the keys present, in the ascending order of their universe
Sorted(universe, present) == SelectSeq(universe, LAMBDA k : k \in present)

\* every signal type, rule name and condition label a report can hold, ascending
SignalTypeOrder == <<"BUY", "NONE", "SELL">>
RuleNameOrder ==
    <<"moving_average_crossover", "rsi_overbought", "rsi_oversold">>
        \o LoadedRules(MaxRules) \o <<"trend_following">>
ConditionOrder ==
    <<"regime:bear", "regime:bull", "rsi:neutral", "rsi:overbought", "rsi:oversold">>

CONFIDENCE_BUCKETS_closed_top ==
    << [label |-> "0-25%", low |-> Conf(0), high |-> Conf(25)],
       [label |-> "25-50%", low |-> Conf(25), high |-> Conf(50)],
       [label |-> "50-75%", low |-> Conf(50), high |-> Conf(75)],
       [label |-> "75-100%", low |-> Conf(75), high |-> Conf(100)] >>

CONFIDENCE_BUCKETS ==
    << [label |-> "0-25%", low |-> Conf(0), high |-> Conf(25)],
       [label |-> "25-50%", low |-> Conf(25), high |-> Conf(50)],
       [label |-> "50-75%", low |-> Conf(50), high |-> Conf(75)],
       [label |-> "75-100%", low |-> Conf(75), high |-> Conf(101)] >>

RSI_BUCKETS ==
    << [label |-> "rsi:oversold", low |-> 0, high |-> 30],
       [label |-> "rsi:neutral", low |-> 30, high |-> 70],
       [label |-> "rsi:overbought", low |-> 70, high |-> 101] >>

\* the bucket the loop breaks on: the first with low <= x < high, 0 when none
FirstBucket(buckets, x) ==
    LET hits == {i \in DOMAIN buckets : buckets[i].low <= x /\ x < buckets[i].high}
    IN IF hits = {} THEN 0 ELSE CHOOSE i \in hits : \A j \in hits : i <= j

_build_pairs_default_return(analyses_, positions) ==
    LET Kept(a) == a.position_id \in DOMAIN positions
        retained == SelectSeq(analyses_, Kept)
        Filled(p) == IF p.realized_pl_pct # Null THEN p
                     ELSE [p EXCEPT !.realized_pl_pct = Some(0), !.realized_pl = Some(0)]
    IN [i \in 1..Len(retained) |->
            [analysis |-> retained[i],
             position |-> Filled(positions[retained[i].position_id])]]

_build_pairs(analyses_, positions) ==
    LET Kept(a) == LET p == Get(positions, a.position_id)
                   IN p # Null /\ Val(p).realized_pl_pct # Null
        retained == SelectSeq(analyses_, Kept)
    IN [i \in 1..Len(retained) |->
            [analysis |-> retained[i], position |-> positions[retained[i].position_id]]]

\* total and wins of the pairs counted under one key
Tally(hit) ==
    [total |-> Len(hit), wins |-> Len(SelectSeq(hit, LAMBDA pr : is_winner(pr.position)))]

SignalKey(a) == IF a.entry_signal_type \in {NONE, ""} THEN "NONE" ELSE a.entry_signal_type

\* round(ret, 2) of a percentage held in units of 1/RetScale: the nearest
\* hundredth, a tie going to the even one
RoundHundredths(x) ==
    LET q == x \div 100
        r == x % 100
    IN IF r * 2 < 100 THEN q * 100
       ELSE IF r * 2 > 100 THEN (q + 1) * 100
       ELSE IF q % 2 = 0 THEN q * 100 ELSE (q + 1) * 100

\* the trade_info dict of lines 157-161; entry_date stands for its formatted day
trade_info(position) ==
    [symbol |-> position.symbol,
     return_pct |-> RoundHundredths(Val(position.realized_pl_pct)),
     entry_date |-> position.entry_date]

\* best and worst as the loop of lines 142-165 leaves them: each return is
\* compared with the return_pct the kept trade_info holds
RECURSIVE BestAfter(_, _, _)
BestAfter(group, i, best) ==
    IF i > Len(group) THEN best
    ELSE LET ret == Val(group[i].position.realized_pl_pct)
         IN BestAfter(group, i + 1,
                      IF best = Null \/ ret > Val(best).return_pct
                      THEN Some(trade_info(group[i].position)) ELSE best)

RECURSIVE WorstAfter(_, _, _)
WorstAfter(group, i, worst) ==
    IF i > Len(group) THEN worst
    ELSE LET ret == Val(group[i].position.realized_pl_pct)
         IN WorstAfter(group, i + 1,
                       IF worst = Null \/ ret < Val(worst).return_pct
                       THEN Some(trade_info(group[i].position)) ELSE worst)

_compute_signal_type_metrics(signal_type, group) ==
    LET t == Tally(group)
    IN [signal_type |-> signal_type, trade_count |-> Len(group),
        win_count |-> t.wins, loss_count |-> Len(group) - t.wins,
        win_rate |-> IF Len(group) > 0 THEN Rate(t.wins, Len(group)) ELSE 0,
        avg_return_pct |-> Mean(SumSeq([i \in DOMAIN group |->
                                          Val(group[i].position.realized_pl_pct)]),
                                Len(group)),
        best_trade |-> BestAfter(group, 1, Null),
        worst_trade |-> WorstAfter(group, 1, Null)]

_analyze_by_signal_type(pairs) ==
    LET keys == Sorted(SignalTypeOrder, {SignalKey(pairs[i].analysis) : i \in DOMAIN pairs})
    IN [k \in 1..Len(keys) |->
            _compute_signal_type_metrics(keys[k],
                SelectSeq(pairs, LAMBDA pr : SignalKey(pr.analysis) = keys[k]))]

\* the triggered evaluations of one rule in one analysis
Triggers(a, rule_name) ==
    Len(SelectSeq(a.entry_rules_evaluated,
                  LAMBDA e : e.triggered /\ e.rule_name = rule_name))

RECURSIVE RuleTotals(_, _, _)
RuleTotals(pairs, rule_name, i) ==
    IF i > Len(pairs) THEN [total |-> 0, wins |-> 0]
    ELSE LET rest == RuleTotals(pairs, rule_name, i + 1)
             n == Triggers(pairs[i].analysis, rule_name)
         IN [total |-> rest.total + n,
             wins |-> rest.wins + (IF is_winner(pairs[i].position) THEN n ELSE 0)]

_analyze_by_rule(pairs) ==
    LET names == Sorted(RuleNameOrder,
                        {n \in {RuleNameOrder[j] : j \in DOMAIN RuleNameOrder} :
                            RuleTotals(pairs, n, 1).total > 0})
    IN [k \in 1..Len(names) |->
            LET data == RuleTotals(pairs, names[k], 1)
            IN [rule_name |-> names[k], trigger_count |-> data.total, wins |-> data.wins]]

_analyze_by_confidence(pairs) ==
    [b \in DOMAIN CONFIDENCE_BUCKETS |->
        LET data == Tally(SelectSeq(pairs, LAMBDA pr :
                        FirstBucket(CONFIDENCE_BUCKETS,
                                    pr.analysis.entry_signal_confidence) = b))
        IN [range_label |-> CONFIDENCE_BUCKETS[b].label,
            range_low |-> CONFIDENCE_BUCKETS[b].low,
            range_high |-> CONFIDENCE_BUCKETS[b].high,
            trade_count |-> data.total, wins |-> data.wins]]

\* the condition labels one pair is counted under: its regime and its RSI bucket
ConditionsOf(pr) ==
    LET entry_metrics == pr.position.risk_metrics_at_entry
        regime == GetOr(entry_metrics, "regime", "")
        rsi == Or(Get(pr.analysis.risk_metrics, "rsi"), Get(entry_metrics, "rsi_14"))
        b == IF rsi = Null THEN 0 ELSE FirstBucket(RSI_BUCKETS, Val(rsi))
    IN (IF regime # "" THEN {"regime:" \o regime} ELSE {})
        \cup (IF b # 0 THEN {RSI_BUCKETS[b].label} ELSE {})

_analyze_by_condition(pairs) ==
    LET conds == Sorted(ConditionOrder, UNION {ConditionsOf(pairs[i]) : i \in DOMAIN pairs})
    IN [k \in 1..Len(conds) |->
            LET data == Tally(SelectSeq(pairs, LAMBDA pr : conds[k] \in ConditionsOf(pr)))
            IN [condition |-> conds[k], trade_count |-> data.total, wins |-> data.wins]]

SignalOutcomeReport(total) ==
    [total_trades_analyzed |-> total, signal_type_metrics |-> <<>>,
     rule_metrics |-> <<>>, confidence_buckets |-> <<>>, condition_metrics |-> <<>>,
     key_insights |-> <<>>]

\* an insight: its wording and the numbers formatted into it
Insight(text, args) == [text |-> text, args |-> args]
InsufficientData ==
    Insight("Insufficient data for meaningful insights - more closed trades needed", <<>>)

\* format(x, "+.1f") of a mean return held in units of 1/(RetScale * AvgLcm):
\* tenths of a percent, an exact half going to the even one
OneDecimal(x) ==
    LET den == RetScale * AvgLcm
        q == (10 * x) \div den
        r == (10 * x) % den
    IN IF 2 * r > den \/ (2 * r = den /\ q % 2 = 1) THEN q + 1 ELSE q

\* the last metrics of one signal type (lines 329-335), Null without one
SignalTypeMetricsOf(metrics, signal_type) ==
    LET hits == SelectSeq(metrics, LAMBDA m : m.signal_type = signal_type)
    IN IF hits = <<>> THEN Null ELSE Some(hits[Len(hits)])

\* lines 337-356
SignalInsights(rep) ==
    LET buy_metrics == SignalTypeMetricsOf(rep.signal_type_metrics, "BUY")
        none_metrics == SignalTypeMetricsOf(rep.signal_type_metrics, "NONE")
        b == Val(buy_metrics)
        n == Val(none_metrics)
    IN (IF buy_metrics # Null /\ none_metrics # Null
           /\ b.trade_count > 0 /\ n.trade_count > 0
        THEN IF b.win_rate > n.win_rate
             THEN <<Insight("Trades with BUY signals win vs without signals (edge)",
                            <<PercentText(b.win_count, b.trade_count),
                              PercentText(n.win_count, n.trade_count),
                              PercentText(b.win_count * n.trade_count
                                            - n.win_count * b.trade_count,
                                          b.trade_count * n.trade_count)>>)>>
             ELSE IF n.win_rate > b.win_rate
             THEN <<Insight("Trades WITHOUT signals are outperforming signal-based entries - review signal quality",
                            <<>>)>>
             ELSE <<>>
        ELSE <<>>)
       \o (IF buy_metrics # Null /\ b.trade_count > 0
           THEN <<Insight("BUY signals: trades, avg return, win rate",
                          <<b.trade_count, OneDecimal(b.avg_return_pct),
                            PercentText(b.win_count, b.trade_count)>>)>>
           ELSE <<>>)

\* the last non-empty bucket with one label (lines 359-364), Null without one
BucketOf(buckets, label) ==
    LET hits == SelectSeq(buckets, LAMBDA b : b.range_label = label /\ b.trade_count > 0)
    IN IF hits = <<>> THEN Null ELSE Some(hits[Len(hits)])

\* lines 366-378
ConfidenceInsights(rep) ==
    LET high_conf == BucketOf(rep.confidence_buckets, "75-100%")
        low_conf == BucketOf(rep.confidence_buckets, "0-25%")
        h == Val(high_conf)
        l == Val(low_conf)
    IN IF high_conf # Null /\ low_conf # Null
       THEN IF h.wins * l.trade_count > l.wins * h.trade_count
            THEN <<Insight("High confidence (75-100%) wins vs low confidence (0-25%) - confidence is predictive",
                           <<PercentText(h.wins, h.trade_count),
                             PercentText(l.wins, l.trade_count)>>)>>
            ELSE IF h.trade_count >= 3
            THEN <<Insight("High confidence signals are NOT outperforming low confidence - calibration may need adjustment",
                           <<>>)>>
            ELSE <<>>
       ELSE <<>>

\* lines 381-401: the rules with two triggers or more, sorted by win rate
\* descending by a stable sort: the best is the first of the highest, the
\* worst the last of the lowest
RuleInsights(rep) ==
    LET rules == SelectSeq(rep.rule_metrics, LAMBDA r : r.trigger_count >= 2)
        Below(r, q) == r.wins * q.trigger_count < q.wins * r.trigger_count
        best == rules[CHOOSE i \in DOMAIN rules :
                        /\ \A j \in DOMAIN rules : ~Below(rules[i], rules[j])
                        /\ \A j \in 1..(i - 1) : Below(rules[j], rules[i])]
        worst == rules[CHOOSE i \in DOMAIN rules :
                         /\ \A j \in DOMAIN rules : ~Below(rules[j], rules[i])
                         /\ \A j \in (i + 1)..Len(rules) : Below(rules[i], rules[j])]
    IN IF rules = <<>> THEN <<>>
       ELSE <<Insight("Best rule", <<best.rule_name,
                                     PercentText(best.wins, best.trigger_count),
                                     best.trigger_count>>)>>
            \o (IF Len(rules) > 1 /\ 2 * worst.wins < worst.trigger_count
                THEN <<Insight("Worst rule - consider disabling or tuning",
                               <<worst.rule_name,
                                 PercentText(worst.wins, worst.trigger_count)>>)>>
                ELSE <<>>)

\* the labels of ConditionOrder that start with "regime:"
RegimeConditions == {"regime:bear", "regime:bull"}

\* lines 404-411
RECURSIVE ConditionInsights(_)
ConditionInsights(metrics) ==
    IF metrics = <<>> THEN <<>>
    ELSE LET cm == Head(metrics)
         IN (IF cm.trade_count >= 2 /\ cm.condition \in RegimeConditions
                /\ 10 * cm.wins < 4 * cm.trade_count
             THEN <<Insight("Poor performance - tighten filters for this regime",
                            <<cm.condition, PercentText(cm.wins, cm.trade_count),
                              cm.trade_count>>)>>
             ELSE <<>>) \o ConditionInsights(Tail(metrics))

\* the closing line is appended whenever the signal-type part said nothing
_generate_insights_closing_after_signals(rep) ==
    LET insights == SignalInsights(rep) \o ConfidenceInsights(rep) \o RuleInsights(rep)
                      \o ConditionInsights(rep.condition_metrics)
    IN IF SignalInsights(rep) = <<>> THEN Append(insights, InsufficientData) ELSE insights

_generate_insights(rep) ==
    LET insights == SignalInsights(rep) \o ConfidenceInsights(rep) \o RuleInsights(rep)
                      \o ConditionInsights(rep.condition_metrics)
    IN IF insights = <<>> THEN <<InsufficientData>> ELSE insights

analyze(analyses_, positions) ==
    LET fresh == SignalOutcomeReport(Len(analyses_))
        pairs == _build_pairs(analyses_, positions)
        measured == [fresh EXCEPT !.signal_type_metrics = _analyze_by_signal_type(pairs),
                                  !.rule_metrics = _analyze_by_rule(pairs),
                                  !.confidence_buckets = _analyze_by_confidence(pairs),
                                  !.condition_metrics = _analyze_by_condition(pairs)]
    IN IF analyses_ = <<>> THEN [fresh EXCEPT !.key_insights = <<InsufficientData>>]
       ELSE [measured EXCEPT !.key_insights = _generate_insights(measured)]

\* ------------------------------------------------------- analyze_position
\* AnalysisConfig defaults read by analyze_position (config.py)
AnalysisSettings == [min_signal_confidence |-> Conf(50), position_size_tolerance |-> 20]

Note(text, percent) == [text |-> text, percent |-> percent]

\* dict.update
Update(d, e) == [k \in DOMAIN d \cup DOMAIN e |-> IF k \in DOMAIN e THEN e[k] ELSE d[k]]

\* what the risk adapter does when asked: there is none, check_risk raises,
\* or it returns [recommended_shares, risk_metrics]
RiskNone == [kind |-> "none", recommended_shares |-> 0, risk_metrics |-> EmptyDict]
RiskRaises == [kind |-> "raises", recommended_shares |-> 0, risk_metrics |-> EmptyDict]
RiskResult(shares) ==
    [kind |-> "result", recommended_shares |-> shares, risk_metrics |-> [risk_pct |-> 2]]

\* the entry part with the sizing check made whether or not there is a snapshot
EntryAnalysis_sizing_without_snapshot(position, entry_indicators, eval, risk, settings) ==
    LET rec == risk.recommended_shares
    IN [entry_rules_evaluated |-> <<>>, entry_signal_type |-> NONE,
        entry_signal_confidence |-> 0, entry_signal_matched |-> FALSE,
        risk_metrics |-> EmptyDict,
        recommended_shares |-> IF risk.kind = "result" THEN Some(rec) ELSE Null,
        position_size_deviation |->
            IF risk.kind = "result" /\ rec > 0
            THEN ((position.quantity - rec) * 100) \div rec ELSE 0,
        notes |-> <<>>,
        warnings |-> <<Note("No indicator data available at entry time", 0)>>]

\* lines 128-177: the entry part of the analysis
EntryAnalysis(position, entry_indicators, eval, risk, settings) ==
    LET base == [entry_rules_evaluated |-> <<>>, entry_signal_type |-> NONE,
                 entry_signal_confidence |-> 0, entry_signal_matched |-> FALSE,
                 risk_metrics |-> EmptyDict, recommended_shares |-> Null,
                 position_size_deviation |-> 0, notes |-> <<>>, warnings |-> <<>>]
        stored == MkDict([atr |-> Get(entry_indicators, "atr_14"),
                          rsi |-> Get(entry_indicators, "rsi_14"),
                          sma_200 |-> Get(entry_indicators, "sma_200")])
        evaluated == [base EXCEPT
            !.entry_rules_evaluated = eval.evaluations,
            !.entry_signal_type = eval.signal,
            !.entry_signal_confidence = eval.confidence,
            !.entry_signal_matched =
                (eval.signal = "BUY" /\ eval.confidence >= settings.min_signal_confidence),
            !.risk_metrics = stored]
    IN IF entry_indicators = EmptyDict
       THEN [base EXCEPT !.warnings = <<Note("No indicator data available at entry time", 0)>>]
       ELSE IF risk.kind = "none" THEN evaluated
       ELSE IF risk.kind = "raises"
            THEN [evaluated EXCEPT !.notes = <<Note("Risk check unavailable", 0)>>]
       ELSE [evaluated EXCEPT
                !.recommended_shares = Some(risk.recommended_shares),
                !.position_size_deviation =
                    IF risk.recommended_shares > 0
                    THEN ((position.quantity - risk.recommended_shares) * 100)
                            \div risk.recommended_shares
                    ELSE 0,
                !.risk_metrics = Update(stored, risk.risk_metrics)]

\* the three entry tests as separate ifs, not one if / elif chain
_add_analysis_notes_separate_ifs(a, position, settings) ==
    LET entry_note ==
            IF a.entry_signal_matched \/ a.entry_signal_type # NONE THEN <<>>
            ELSE <<Note("No clear entry signal at time of purchase", 0)>>
        entry_warning ==
            IF ~a.entry_signal_matched /\ a.entry_signal_type = "SELL"
            THEN <<Note("Entry was against a SELL signal", 0)>> ELSE <<>>
        low_note ==
            IF /\ ~a.entry_signal_matched
               /\ a.entry_signal_confidence < settings.min_signal_confidence
            THEN <<Note("Entry signal confidence below threshold",
                        PercentText(a.entry_signal_confidence, ConfScale))>>
            ELSE <<>>
    IN [a EXCEPT !.notes = @ \o entry_note \o low_note,
                 !.warnings = @ \o entry_warning]

\* _add_analysis_notes: the notes and warnings appended to the analysis
_add_analysis_notes(a, position, settings) ==
    LET entry_note ==
            IF a.entry_signal_matched \/ a.entry_signal_type # NONE THEN <<>>
            ELSE <<Note("No clear entry signal at time of purchase", 0)>>
        entry_warning ==
            IF ~a.entry_signal_matched /\ a.entry_signal_type = "SELL"
            THEN <<Note("Entry was against a SELL signal", 0)>> ELSE <<>>
        low_note ==
            IF /\ ~a.entry_signal_matched
               /\ a.entry_signal_type \notin {NONE, "SELL"}
               /\ a.entry_signal_confidence < settings.min_signal_confidence
            THEN <<Note("Entry signal confidence below threshold",
                        PercentText(a.entry_signal_confidence, ConfScale))>>
            ELSE <<>>
        off == Abs(a.position_size_deviation) > settings.position_size_tolerance
        size_warning ==
            IF off /\ a.position_size_deviation > 0
            THEN <<Note("Position larger than recommended",
                        PercentText(a.position_size_deviation, 100))>>
            ELSE <<>>
        size_note ==
            IF off /\ a.position_size_deviation <= 0
            THEN <<Note("Position smaller than recommended",
                        PercentText(Abs(a.position_size_deviation), 100))>>
            ELSE <<>>
        exit_note ==
            IF a.exit_type = "stop_loss"
            THEN <<Note("Proper stop loss discipline maintained", 0)>>
            ELSE IF a.exit_type = "profit_target" THEN <<Note("Profit target achieved", 0)>>
            ELSE IF a.exit_type = "manual" /\ is_winner(position)
                 THEN <<Note("Manual exit - profitable but may have left gains", 0)>>
            ELSE <<>>
        exit_warning ==
            IF a.exit_type = "manual" /\ ~is_winner(position)
            THEN <<Note("Manual exit at a loss - review exit discipline", 0)>> ELSE <<>>
    IN [a EXCEPT !.notes = @ \o entry_note \o low_note \o size_note \o exit_note,
                 !.warnings = @ \o entry_warning \o size_warning \o exit_warning]

\* DeviationAnalyzer.analyze_position, given what the evaluator returned for
\* the entry snapshot (read only when there is one) and what the market data
\* loader returned for the two timestamps
analyze_position(position, entry_indicators, exit_indicators, eval, risk, classifier, store, err) ==
    LET settings == AnalysisSettings
        entry == EntryAnalysis(position, entry_indicators, eval, risk, settings)
        exit_snapshot == IF position.exit_date # Null THEN exit_indicators ELSE EmptyDict
        classified == [position_id |-> position.id, symbol |-> position.symbol,
                       actual_shares |-> position.quantity,
                       entry_rules_evaluated |-> entry.entry_rules_evaluated,
                       entry_signal_type |-> entry.entry_signal_type,
                       entry_signal_confidence |-> entry.entry_signal_confidence,
                       entry_signal_matched |-> entry.entry_signal_matched,
                       risk_metrics |-> entry.risk_metrics,
                       recommended_shares |-> entry.recommended_shares,
                       position_size_deviation |-> entry.position_size_deviation,
                       notes |-> entry.notes, warnings |-> entry.warnings,
                       exit_type |->
                           classify(classifier, store, err, position, exit_snapshot).exit_type,
                       rule_compliance_score |-> 0, compliance_level |-> "non_compliant"]
    IN _add_analysis_notes(calculate_compliance_score(classified), position, settings)

\* ------------------------------------------------------- deviation report
\* journal_repo.get_position_by_id over the rows the journal holds
get_position_by_id(rows, position_id) == Get(rows, position_id)

\* the journal's verdict on an analysis: "none" when the position is not found
Outcome(rows, a) ==
    LET p == get_position_by_id(rows, a.position_id)
    IN IF p = Null THEN "none" ELSE IF is_winner(Val(p)) THEN "win" ELSE "loss"

\* only the trailing-stop exits counted as other
OtherExits_trailing_stop_only(l) ==
    Len(SelectSeq(l, LAMBDA a : a.exit_type = "trailing_stop"))
\* the else branches of the two chains: whatever no earlier branch took
OtherExits(l) ==
    Len(SelectSeq(l, LAMBDA a : a.exit_type \notin {"profit_target", "stop_loss", "manual"}))
BelowPoor(l) ==
    Len(SelectSeq(l, LAMBDA a : a.compliance_level \notin {"excellent", "good", "fair", "poor"}))

ComplianceMetrics(l, rows) ==
    LET n == Len(l)
        Level(lv) == Len(SelectSeq(l, LAMBDA a : a.compliance_level = lv))
        Exit(t) == Len(SelectSeq(l, LAMBDA a : a.exit_type = t))
        Split(compliant, o) ==
            Len(SelectSeq(l, LAMBDA a :
                    /\ Outcome(rows, a) = o
                    /\ compliant = (a.rule_compliance_score >= Score(50))))
        cw == Split(TRUE, "win")
        cl == Split(TRUE, "loss")
        nw == Split(FALSE, "win")
        nl == Split(FALSE, "loss")
    IN [total_positions |-> n, analyzed_positions |-> n,
        excellent_count |-> Level("excellent"), good_count |-> Level("good"),
        fair_count |-> Level("fair"), poor_count |-> Level("poor"),
        non_compliant_count |-> BelowPoor(l),
        avg_compliance_score |->
            Mean(SumSeq([i \in 1..n |-> l[i].rule_compliance_score]), n),
        avg_entry_confidence |->
            Mean(SumSeq([i \in 1..n |-> l[i].entry_signal_confidence]), n),
        avg_position_size_deviation |->
            Mean(SumSeq([i \in 1..n |-> Abs(l[i].position_size_deviation)]), n),
        entries_with_buy_signal |-> Len(SelectSeq(l, LAMBDA a : a.entry_signal_matched)),
        entries_without_signal |-> Len(SelectSeq(l, LAMBDA a : ~a.entry_signal_matched)),
        profit_target_exits |-> Exit("profit_target"),
        stop_loss_exits |-> Exit("stop_loss"),
        manual_exits |-> Exit("manual"),
        other_exits |-> OtherExits(l),
        compliant_win_rate |-> IF cw + cl > 0 THEN Rate(cw, cw + cl) ELSE 0,
        non_compliant_win_rate |-> IF nw + nl > 0 THEN Rate(nw, nw + nl) ELSE 0]

\* sorted(analyses, key=rule_compliance_score): stable, equal scores keep
\* the order they came in
RECURSIVE sorted_by_compliance(_)
sorted_by_compliance(l) ==
    IF l = <<>> THEN <<>>
    ELSE LET before == sorted_by_compliance(SubSeq(l, 1, Len(l) - 1))
             x == l[Len(l)]
             k == Cardinality({i \in DOMAIN before :
                      before[i].rule_compliance_score <= x.rule_compliance_score})
         IN SubSeq(before, 1, k) \o <<x>> \o SubSeq(before, k + 1, Len(before))

\* l[:5] and l[-5:][::-1]
FirstFive(l) == SubSeq(l, 1, Min(5, Len(l)))
\* the last five, left in ascending order
LastFiveReversed_not_reversed(l) == SubSeq(l, Len(l) - Min(5, Len(l)) + 1, Len(l))
LastFiveReversed(l) == [i \in 1..Min(5, Len(l)) |-> l[Len(l) - i + 1]]

_identify_common_issues(l, metrics, rows) ==
    LET n == Len(l)
        losing_trades == Len(SelectSeq(l, LAMBDA a : Outcome(rows, a) = "loss"))
    IN (IF metrics.entries_without_signal * 10 > 3 * n
        THEN <<[issue |-> "entries had no valid buy signal",
                percent |-> PercentText(metrics.entries_without_signal, n)]>>
        ELSE <<>>)
       \o (IF metrics.avg_position_size_deviation > 20 * AvgLcm
           THEN <<[issue |-> "Average position size deviation",
                   percent |-> PercentText(metrics.avg_position_size_deviation,
                                           100 * AvgLcm)]>>
           ELSE <<>>)
       \o (IF metrics.manual_exits * 2 > n
           THEN <<[issue |-> "exits were manual/discretionary",
                   percent |-> PercentText(metrics.manual_exits, n)]>>
           ELSE <<>>)
       \o (IF losing_trades > 0 /\ metrics.stop_loss_exits * 10 < 3 * n
           THEN <<[issue |-> "Many losing trades without stop loss exits",
                   percent |-> 0]>>
           ELSE <<>>)

Recommendation(text, compliant, non_compliant) ==
    [text |-> text, compliant |-> compliant, non_compliant |-> non_compliant]

_generate_recommendations(metrics) ==
    (IF metrics.entries_without_signal > metrics.entries_with_buy_signal
     THEN <<Recommendation("Wait for valid buy signals before entering positions", 0, 0)>>
     ELSE <<>>)
    \o (IF metrics.avg_position_size_deviation > 20 * AvgLcm
        THEN <<Recommendation("Use risk-engine position sizing recommendations", 0, 0)>>
        ELSE <<>>)
    \o (IF metrics.manual_exits > metrics.profit_target_exits + metrics.stop_loss_exits
        THEN <<Recommendation("Set and honor profit targets and stop losses", 0, 0)>>
        ELSE <<>>)
    \o (IF metrics.compliant_win_rate > metrics.non_compliant_win_rate + RateScale \div 10
        THEN <<Recommendation("Compliant trades win more - stick to the rules",
                              PercentText(metrics.compliant_win_rate, RateScale),
                              PercentText(metrics.non_compliant_win_rate, RateScale))>>
        ELSE <<>>)

DeviationReport(l) ==
    [analyses |-> l, metrics |-> ComplianceMetrics(<<>>, EmptyDict),
     worst_deviations |-> <<>>, best_compliant |-> <<>>,
     common_issues |-> <<>>, recommendations |-> <<>>]

generate_report(l, rows) ==
    LET metrics == ComplianceMetrics(l, rows)
        ranked == sorted_by_compliance(l)
    IN IF l = <<>> THEN DeviationReport(l)
       ELSE [DeviationReport(l) EXCEPT
                !.metrics = metrics,
                !.worst_deviations = FirstFive(ranked),
                !.best_compliant = LastFiveReversed(ranked),
                !.common_issues = _identify_common_issues(l, metrics, rows),
                !.recommendations = _generate_recommendations(metrics)]

\* ------------------------------------------------------------ batch loops
\* the TradeAnalysis analyze_position returns for a position, by its position_id
AnalysisOf(id) == [position_id |-> id]

\* what the database does to one query: answers, fails with a psycopg2.Error
\* that is not an OperationalError, or fails with an OperationalError
QueryOutcomes == {"ok", "error", "operational_error"}

\* JournalRepository.get_closed_positions: [raised, rows]
get_closed_positions(repo, unanalyzed_only, query) ==
    IF ~repo.conn THEN [raised |-> FALSE, rows |-> <<>>]
    ELSE IF query = "operational_error" THEN [raised |-> TRUE, rows |-> <<>>]
    ELSE IF query = "error" THEN [raised |-> FALSE, rows |-> <<>>]
    ELSE [raised |-> FALSE,
          rows |-> IF unanalyzed_only
                   THEN SelectSeq(repo.closed, LAMBDA id : id \notin repo.analyzed)
                   ELSE repo.closed]

\* JournalRepository.update_position_analysis: [raised, ok, repo]
update_position_analysis(repo, position_id, query) ==
    IF ~repo.conn THEN [raised |-> FALSE, ok |-> FALSE, repo |-> repo]
    ELSE IF query = "operational_error" THEN [raised |-> TRUE, ok |-> FALSE, repo |-> repo]
    ELSE IF query = "error" THEN [raised |-> FALSE, ok |-> FALSE, repo |-> repo]
    ELSE [raised |-> FALSE, ok |-> TRUE,
          repo |-> [repo EXCEPT !.analyzed = @ \cup {position_id}]]

\* a batch call: which one, its update_db, its positions, the index of the
\* position the loop is at, the analyses list, and where the call stands
Batch(op, update_db, positions, status) ==
    [op |-> op, update_db |-> update_db, positions |-> positions, i |-> 1,
     analyses |-> <<>>, status |-> status]

NoBatch == Batch("none", FALSE, <<>>, "idle")

\* what one pass of the loop meets: analyze_position returns or raises, and
\* then what the database does to the update
PassOutcomes ==
    {[analysis |-> "raises", update |-> "ok"]}
        \cup {[analysis |-> "returns", update |-> q] : q \in QueryOutcomes}

Persists(b) == b.op # "analyze_positions" /\ b.update_db

\* the loop body without its try/except: a raise leaves the batch call
LoopPass_unguarded(b, repo, outcome) ==
    LET id == b.positions[b.i]
        written == IF Persists(b) /\ outcome.analysis = "returns"
                   THEN update_position_analysis(repo, id, outcome.update).repo
                   ELSE repo
    IN IF outcome.analysis = "raises"
       THEN [batch |-> [b EXCEPT !.status = "raised"], repo |-> repo]
       ELSE [batch |-> [b EXCEPT !.analyses = Append(@, AnalysisOf(id)), !.i = @ + 1],
             repo |-> written]

\* one pass of "for position in positions: try: ... except Exception: log"
LoopPass(b, repo, outcome) ==
    LET id == b.positions[b.i]
        written == IF Persists(b) /\ outcome.analysis = "returns"
                   THEN update_position_analysis(repo, id, outcome.update).repo
                   ELSE repo
    IN IF outcome.analysis = "raises"
       THEN [batch |-> [b EXCEPT !.i = @ + 1], repo |-> repo]
       ELSE [batch |-> [b EXCEPT !.analyses = Append(@, AnalysisOf(id)), !.i = @ + 1],
             repo |-> written]

\* TradeAnalyzer.initialize when the journal connects or does not
initialize_analyzer(ta, repo, connects) ==
    IF connects
    THEN [analyzer |-> [ta EXCEPT !.initialized = TRUE], repo |-> [repo EXCEPT !.conn = TRUE]]
    ELSE [analyzer |-> ta, repo |-> repo]

\* the head of analyze_unanalyzed and analyze_all, up to the loop
StartBatch(ta, repo, op, update_db, connects, query) ==
    LET init == IF ta.initialized THEN [analyzer |-> ta, repo |-> repo]
                ELSE initialize_analyzer(ta, repo, connects)
        fetched == get_closed_positions(init.repo, op = "analyze_unanalyzed", query)
    IN [analyzer |-> init.analyzer, repo |-> init.repo,
        batch |-> IF ~init.analyzer.initialized THEN Batch(op, update_db, <<>>, "returned")
                  ELSE IF fetched.raised THEN Batch(op, update_db, <<>>, "raised")
                  ELSE Batch(op, update_db, fetched.rows, "running")]

\* ------------------------------------------------------------------ runner
\* ReportingRunner.__init__ (runner.py 35-39) with the handler main registers
\* before it runs a command (lines 340-346)
FreshRunner(daemon) ==
    [daemon |-> daemon, _running |-> FALSE, _shutdown_called |-> FALSE,
     handler |-> "_handle_shutdown"]

\* a handler that only logs the signal
handle_signal_only_logs(r) == r

\* the handler _run_daemon installs in place of main's (lines 118-123)
handle_signal(r) == [r EXCEPT !._running = FALSE]

\* ReportingRunner.shutdown (lines 233-242) with TradeAnalyzer.shutdown
shutdown(r, repo) ==
    IF r._shutdown_called THEN [runner |-> r, repo |-> repo]
    ELSE [runner |-> [r EXCEPT !._shutdown_called = TRUE],
          repo |-> [repo EXCEPT !.conn = FALSE]]

\* the batch of analyze_unanalyzed as the main thread walks it: phase is
\* "boundary" between two positions, "analysing" inside analyze_position,
\* "persisting" inside _update_position, "none" when no batch is running
RunBatch(positions, i, phase, done) ==
    [positions |-> positions, i |-> i, phase |-> phase, analyses |-> done]
NoRun == RunBatch(<<>>, 1, "none", <<>>)

NoShutdown == [requested |-> FALSE, started_after |-> {}, stopped_in |-> NONE]

\* ------------------------------------------------------------------- state
VARIABLES
    analysis,        \* the TradeAnalysis under scoring
    scoreCalls,      \* calls of calculate_compliance_score made on it
    levelPrev,       \* previous call of ComplianceLevel.from_score: [score, level]
    levelCur,        \* latest call of ComplianceLevel.from_score
    position,        \* the Position handed to the exit classifier
    exit_indicators, \* the indicators_at_exit handed to it
    exit_classifier, \* the ExitClassifier: its rules client and static thresholds
    rules_store,     \* what the rules client's Redis holds
    exitCalls,       \* calls of classify made on this position
    exitPrev,        \* what the previous call of classify returned and resolved
    exitLast,        \* what the latest call of classify returned and resolved
    exitErr,         \* the Redis or JSON failure the latest call of classify met
    rule_evaluator,  \* the RuleEvaluator: its rules client, loaded rules, _initialized
    rules_env,       \* what loading the rules meets: decision engine, Redis, YAML
    entry_indicators, \* the indicator snapshot handed to evaluate_at_time
    evalResult,      \* what evaluate_at_time returned
    rule_outcomes,   \* what each loaded rule did when that call asked it
    initialize_returned, \* what the last explicit initialize() returned, Null before
    analyses,        \* the TradeAnalysis list handed to SignalOutcomeAnalyzer.analyze
    positions_by_id, \* the position_id -> Position map handed to it
    report,          \* the SignalOutcomeReport it returned
    trade_analyzer,  \* the TradeAnalyzer: _initialized
    journal,         \* the journal: connection, closed positions, analysed ones
    batch,           \* the batch call in progress
    passes, \* what each pass of its loop met, in order
    report_orderings, \* two orderings of one set of analyses handed to generate_report
    journal_rows, \* the journal rows get_position_by_id reads, by position id
    deviation_reports, \* the DeviationReport generate_report returned for each ordering
    analysis_input, \* what analyze_position is given and meets: position, snapshots, risk answer
    deviation_analyzer, \* the DeviationAnalyzer: evaluator, rule sources, exit classifier, rules store
    trade_analysis, \* the TradeAnalysis analyze_position returned
    runner, \* the ReportingRunner: daemon mode, _running, _shutdown_called, signal handler in force
    control, \* where the main thread of the process is
    run_batch, \* the batch analyze_unanalyzed is looping over, position by position
    run_repo, \* the journal the runner works on
    iterations, \* passes of the daemon loop made
    shutdown_log, \* the shutdown request: whether it came, what began after it, where it stopped the process
    ranked_batch, \* the analyses of one larger batch handed to generate_report
    ranked_report, \* the report generate_report returned for them
    client, \* the RulesClient: its connection, cached config and fetch time
    utcnow, \* the clock get_config reads, in seconds
    config_call, \* the last get_config call: its arguments, the client before it, what it did
    journal_row, \* the eight analysis columns of one journal_positions row
    persist_call, \* the last _update_position call: its analysis, its time, how it ended
    persist_runs, \* analysis runs made on the position
    call_stack, \* the frames of the main thread: main() below, signal handlers interrupting it on top
    shutdown_called, \* ReportingRunner._shutdown_called
    analyzer_shutdowns, \* calls of TradeAnalyzer.shutdown started
    signals_delivered \* SIGTERM and SIGINT deliveries handled so far

scoreVars == <<analysis, scoreCalls>>
levelVars == <<levelPrev, levelCur>>
exitVars == <<position, exit_indicators, exit_classifier, rules_store, exitCalls,
              exitPrev, exitLast, exitErr>>

evalVars == <<rule_evaluator, rules_env, entry_indicators, evalResult, rule_outcomes,
             initialize_returned>>

outcomeVars == <<analyses, positions_by_id, report>>

batchVars == <<trade_analyzer, journal, batch, passes>>

reportVars == <<report_orderings, journal_rows, deviation_reports>>

posVars == <<analysis_input, deviation_analyzer, trade_analysis>>

runVars == <<runner, control, run_batch, run_repo, iterations, shutdown_log>>

rankVars == <<ranked_batch, ranked_report>>

cacheVars == <<client, utcnow, config_call>>

persistVars == <<journal_row, persist_call, persist_runs>>

mainVars == <<call_stack, shutdown_called, analyzer_shutdowns, signals_delivered>>

vars == <<scoreVars, levelVars, exitVars, evalVars, outcomeVars, batchVars, reportVars, posVars, runVars, rankVars, cacheVars, persistVars, mainVars>>

\* ------------------------------------------------ rules client: get_config
\* RulesClient.__init__: no connection, nothing cached
FreshClient == [redis |-> FALSE, config_cache |-> Null, cache_time |-> Null]

_cache_ttl_seconds == 60

\* a rules configuration: a dict, the empty one being falsy
RulesConfig(version) == IF version = 0 THEN EmptyDict ELSE [version |-> version]

\* what self._redis.get and json.loads give one call: a RedisError, a
\* JSONDecodeError, no data, or a configuration
RedisReads ==
    {[kind |-> "RedisError"], [kind |-> "JSONDecodeError"], [kind |-> "nothing"]}
        \cup {[kind |-> "data", config |-> RulesConfig(v)] : v \in 0..2}

\* connect: the Redis object is assigned before the ping, whose failure
\* is only reported
connect(c) == [c EXCEPT !.redis = TRUE]
close(c) == [c EXCEPT !.redis = FALSE]

\* the cache test with the fetch time's age compared by <= instead of <
get_config_ttl_inclusive(c, now, force_refresh, redis_get) ==
    IF ~c.redis
    THEN [client |-> c, read |-> FALSE, returned |-> c.config_cache, raised |-> FALSE]
    ELSE IF /\ ~force_refresh
            /\ c.config_cache # Null /\ Val(c.config_cache) # EmptyDict
            /\ c.cache_time # Null
            /\ now - Val(c.cache_time) <= _cache_ttl_seconds
    THEN [client |-> c, read |-> FALSE, returned |-> c.config_cache, raised |-> FALSE]
    ELSE IF redis_get.kind = "data"
    THEN [client |-> [c EXCEPT !.config_cache = Some(redis_get.config),
                               !.cache_time = Some(now)],
          read |-> TRUE, returned |-> Some(redis_get.config), raised |-> FALSE]
    ELSE [client |-> c, read |-> TRUE, returned |-> c.config_cache, raised |-> FALSE]

\* get_config: the client after the call, whether the remote store was read,
\* the value returned, whether the call raised
get_config(c, now, force_refresh, redis_get) ==
    IF ~c.redis
    THEN [client |-> c, read |-> FALSE, returned |-> c.config_cache, raised |-> FALSE]
    ELSE IF /\ ~force_refresh
            /\ c.config_cache # Null /\ Val(c.config_cache) # EmptyDict
            /\ c.cache_time # Null
            /\ now - Val(c.cache_time) < _cache_ttl_seconds
    THEN [client |-> c, read |-> FALSE, returned |-> c.config_cache, raised |-> FALSE]
    ELSE IF redis_get.kind = "data"
    THEN [client |-> [c EXCEPT !.config_cache = Some(redis_get.config),
                               !.cache_time = Some(now)],
          read |-> TRUE, returned |-> Some(redis_get.config), raised |-> FALSE]
    ELSE [client |-> c, read |-> TRUE, returned |-> c.config_cache, raised |-> FALSE]

\* ------------------------------------------- persisting one analysis
\* "; ".join(texts)
RECURSIVE Join(_)
Join(texts) ==
    IF texts = <<>> THEN ""
    ELSE IF Len(texts) = 1 THEN texts[1]
    ELSE texts[1] \o "; " \o Join(Tail(texts))

\* json.dumps of a dict: the document stored in the column
JsonDumps(dict) == [json |-> dict]

\* the analysis columns of a row never analysed: all NULL
UnanalyzedRow ==
    [rule_compliance_score |-> Null, entry_signal_confidence |-> Null,
     entry_signal_type |-> Null, position_size_deviation |-> Null, exit_type |-> Null,
     risk_metrics_at_entry |-> Null, analysis_notes |-> Null, analyzed_at |-> Null]

\* the UPDATE with the notes column left alone when there are no notes
UpdateStatement_keeps_notes(row, a, analysis_notes, now) ==
    [rule_compliance_score |-> Some(a.rule_compliance_score),
     entry_signal_confidence |-> Some(a.entry_signal_confidence),
     entry_signal_type |-> a.entry_signal_type,
     position_size_deviation |-> Some(a.position_size_deviation),
     exit_type |-> Some(a.exit_type),
     risk_metrics_at_entry |->
        IF a.risk_metrics # EmptyDict THEN Some(JsonDumps(a.risk_metrics)) ELSE Null,
     analysis_notes |-> IF analysis_notes = Null THEN row.analysis_notes ELSE analysis_notes,
     analyzed_at |-> Some(now)]

\* the UPDATE of journal_repository.py 332-343 with its parameters (348-358)
UpdateStatement(row, a, analysis_notes, now) ==
    [rule_compliance_score |-> Some(a.rule_compliance_score),
     entry_signal_confidence |-> Some(a.entry_signal_confidence),
     entry_signal_type |-> a.entry_signal_type,
     position_size_deviation |-> Some(a.position_size_deviation),
     exit_type |-> Some(a.exit_type),
     risk_metrics_at_entry |->
        IF a.risk_metrics # EmptyDict THEN Some(JsonDumps(a.risk_metrics)) ELSE Null,
     analysis_notes |-> analysis_notes,
     analyzed_at |-> Some(now)]

\* TradeAnalyzer._update_position on one row: [raised, ok, row]
_update_position(row, conn, a, now, query) ==
    LET notes == Join(a.notes \o a.warnings)
        analysis_notes == IF notes # "" THEN Some(notes) ELSE Null
    IN IF ~conn THEN [raised |-> FALSE, ok |-> FALSE, row |-> row]
       ELSE IF query = "operational_error" THEN [raised |-> TRUE, ok |-> FALSE, row |-> row]
       ELSE IF query = "error" THEN [raised |-> FALSE, ok |-> FALSE, row |-> row]
       ELSE [raised |-> FALSE, ok |-> TRUE,
             row |-> UpdateStatement(row, a, analysis_notes, now)]

\* ----------------------------------------- main(): shutdown, step by step
\* a frame of the main thread: the function it runs and where it stands.
\* The interpreter may run a signal handler between any two steps.
Frame(fn, at) == [fn |-> fn, at |-> at]

\* shutdown with the flag set only after TradeAnalyzer.shutdown returned
shutdown_step_flag_after_call(at, called) ==
    CASE at = "check" -> [at |-> IF called THEN "return" ELSE "call", called |-> called,
                          starts |-> 0]
      [] at = "call" -> [at |-> "analyzer.shutdown", called |-> called, starts |-> 1]
      [] at = "analyzer.shutdown" -> [at |-> "set", called |-> called, starts |-> 0]
      [] OTHER -> [at |-> "return", called |-> TRUE, starts |-> 0]

\* one step of ReportingRunner.shutdown (lines 233-241): the test of the flag,
\* its assignment, the call of TradeAnalyzer.shutdown, that call's return
shutdown_step(at, called) ==
    CASE at = "check" -> [at |-> IF called THEN "return" ELSE "set", called |-> called,
                          starts |-> 0]
      [] at = "set" -> [at |-> "call", called |-> TRUE, starts |-> 0]
      [] at = "call" -> [at |-> "analyzer.shutdown", called |-> called, starts |-> 1]
      [] OTHER -> [at |-> "return", called |-> called, starts |-> 0]

\* sys.exit(0) in _handle_shutdown: SystemExit leaves the handler and every
\* frame it interrupted; main() runs its finally clause if it was still in
\* its try block, and is left for good if it was already in the clause
RECURSIVE SystemExit(_)
SystemExit(stack) ==
    IF Len(stack) = 1
    THEN IF stack[1].at = "try" THEN <<Frame("main", "check")>> ELSE <<Frame("main", "exited")>>
    ELSE SystemExit(SubSeq(stack, 1, Len(stack) - 1))

\* --------------------------------------------------- scorer: inputs, steps
ConfidenceInputs ==
    {Conf(0), Conf(25), Conf(50), Conf(75), Conf(100), ConfScale \div 3}
RecommendedInputs == {Null, Some(0), Some(100)}
DeviationInputs == {-250, -100, -50, -10, 0, 10, 50, 100, 250}

\* dataclass defaults of the two derived fields (analysis.py lines 101-102)
FreshAnalyses ==
    [entry_signal_matched : BOOLEAN,
     entry_signal_confidence : ConfidenceInputs,
     recommended_shares : RecommendedInputs,
     position_size_deviation : DeviationInputs,
     exit_type : ExitTypes,
     rule_compliance_score : {0},
     compliance_level : {"non_compliant"}]

IdleAnalysis ==
    [entry_signal_matched |-> FALSE, entry_signal_confidence |-> 0,
     recommended_shares |-> Null, position_size_deviation |-> 0,
     exit_type |-> "unknown", rule_compliance_score |-> 0,
     compliance_level |-> "non_compliant"]

ScoreIdle == analysis = IdleAnalysis /\ scoreCalls = 0
ScoreInit == analysis \in FreshAnalyses /\ scoreCalls = 0

CalculateComplianceScore ==
    /\ scoreCalls < MaxCalls
    /\ analysis' = calculate_compliance_score(analysis)
    /\ scoreCalls' = scoreCalls + 1
    /\ UNCHANGED <<levelVars, exitVars, evalVars, outcomeVars, batchVars, reportVars, posVars, runVars, rankVars, cacheVars, persistVars, mainVars>>

\* ----------------------------------------------- from_score: inputs, steps
LevelBoundaries == {Score(30), Score(50), Score(70), Score(90)}

\* every hundredth of [0,1] and the scores one unit either side of a boundary
ScoreGrid ==
    {Score(h) : h \in 0..100}
      \cup {b - 1 : b \in LevelBoundaries} \cup {b + 1 : b \in LevelBoundaries}

NoLevelCall == [score |-> -1, level |-> NONE]

LevelIdle == levelPrev = NoLevelCall /\ levelCur = NoLevelCall

FromScore(s) ==
    /\ levelPrev' = levelCur
    /\ levelCur' = [score |-> s, level |-> from_score(s)]
    /\ UNCHANGED <<scoreVars, exitVars, evalVars, outcomeVars, batchVars, reportVars, posVars, runVars, rankVars, cacheVars, persistVars, mainVars>>

\* ------------------------------------------- exit classifier: inputs, steps
Symbols == {"AAPL"}

\* realized_pl_pct is a percentage: 7 percent is 7 * RetScale
PctInputs ==
    {Some(k * (RetScale \div 2)) : k \in {-12, -6, -5, -2, 0, 2, 3, 4, 6, 10, 14, 20}}
HoldingInputs == {Null, Some(20), Some(21)}

Position(id, symbol, status, pct, days) ==
    [id |-> id, symbol |-> symbol, status |-> status,
     realized_pl_pct |-> pct,
     realized_pl |-> IF pct = Null THEN Null ELSE Some(Val(pct) \div 100),
     holding_days |-> days, risk_metrics_at_entry |-> EmptyDict,
     quantity |-> 100, entry_date |-> id,
     exit_date |-> IF status = "closed" THEN Some(1) ELSE Null]

ExitPositions ==
    {Position(1, sym, st, pct, days) :
        sym \in Symbols, st \in {"open", "closed"},
        pct \in PctInputs \cup {Null}, days \in HoldingInputs}

ExitSnapshots ==
    {MkDict([atr_14 |-> a, close |-> c, high |-> h]) :
        a \in {Null, Some(0), Some(2)}, c \in {Null, Some(150)},
        h \in {Null, Some(150), Some(153), Some(156)}}

\* exit strategies a rules document may carry, keys possibly missing
StoredStrategies ==
    {[profit_target |-> 1000, stop_loss |-> 200], [profit_target |-> 300], EmptyDict}
SymbolRules ==
    {EmptyDict, [rules |-> 1]} \cup {[exit_strategy |-> es] : es \in StoredStrategies}

\* AnalysisConfig defaults (config.py lines 35-36)
StaticClassifiers ==
    [rules_client : BOOLEAN, default_profit_threshold : {500},
     default_stop_threshold : {-300}]

RulesStores ==
    [connected : BOOLEAN, symbol_rules : [Symbols -> SymbolRules],
     exit_strategy : {Null, Some([profit_target |-> 600, stop_loss |-> 400])}]

IdleStore == [connected |-> FALSE, symbol_rules |-> [sym \in Symbols |-> EmptyDict],
              exit_strategy |-> Null]

NoExitCall == [exit_type |-> NONE, thresholds |-> Null]

ExitIdle ==
    /\ position = Position(1, "AAPL", "open", Null, Null)
    /\ exit_indicators = EmptyDict
    /\ exit_classifier = [rules_client |-> FALSE, default_profit_threshold |-> 500,
                          default_stop_threshold |-> -300]
    /\ rules_store = IdleStore
    /\ exitCalls = 0
    /\ exitPrev = NoExitCall
    /\ exitLast = NoExitCall
    /\ exitErr = "none"

\* a classifier without rules client never reads the store
ExitInit ==
    /\ position \in ExitPositions
    /\ exit_indicators \in ExitSnapshots
    /\ exit_classifier \in StaticClassifiers
    /\ rules_store \in IF exit_classifier.rules_client THEN RulesStores ELSE {IdleStore}
    /\ exitCalls = 0
    /\ exitPrev = NoExitCall
    /\ exitLast = NoExitCall
    /\ exitErr = "none"

RedisErrors == {"none", "symbol_get", "default_get"}

Classify(err) ==
    /\ exitCalls < MaxCalls
    /\ exitPrev' = exitLast
    /\ exitLast' = classify(exit_classifier, rules_store, err, position, exit_indicators)
    /\ exitCalls' = exitCalls + 1
    /\ exitErr' = err
    /\ UNCHANGED <<position, exit_indicators, exit_classifier, rules_store>>
    /\ UNCHANGED <<scoreVars, levelVars, evalVars, outcomeVars, batchVars, reportVars, posVars, runVars, rankVars, cacheVars, persistVars, mainVars>>

\* --------------------------------------------- rule evaluator: inputs, steps
RuleEnvs ==
    [has_decision_engine : BOOLEAN,
     use_redis_rules : BOOLEAN,
     redis : {[config |-> FALSE, rules |-> Null], [config |-> TRUE, rules |-> Null],
              [config |-> TRUE, rules |-> Some(0)],
              [config |-> TRUE, rules |-> Some(MaxRules)]},
     yaml : {Null, Some(2)}]

IdleEnv == [has_decision_engine |-> FALSE, use_redis_rules |-> FALSE,
            redis |-> [config |-> FALSE, rules |-> Null], yaml |-> Null]

EntrySnapshots ==
    {MkDict([close |-> c, sma_200 |-> l, sma_50 |-> m, rsi_14 |-> r]) :
        c \in {Null, Some(0), Some(130), Some(150)},
        l \in {Null, Some(0), Some(140)},
        m \in {Null, Some(0), Some(130), Some(150)},
        r \in {Null, Some(0), Some(25), Some(50), Some(75)}}

\* the snapshot of the tests' sample_indicators fixture, cut to the keys read
SampleSnapshot == [close |-> 150, sma_200 |-> 140, sma_50 |-> 145, rsi_14 |-> 55]

RuleOutcomes ==
    {RuleOutcome("cannot_evaluate", FALSE, NONE, 0),
     RuleOutcome("raises_can_evaluate", FALSE, NONE, 0),
     RuleOutcome("raises_evaluate", FALSE, NONE, 0),
     RuleOutcome("result", TRUE, "BUY", Conf(40)),
     RuleOutcome("result", TRUE, "BUY", Conf(100)),
     RuleOutcome("result", TRUE, "SELL", Conf(60)),
     RuleOutcome("result", TRUE, "WATCH", Conf(100)),
     RuleOutcome("result", FALSE, "BUY", Conf(100))}

NoEval == EvalResult(<<>>, "not_called", 0)

EvalIdle ==
    /\ rule_evaluator = FreshEvaluator(FALSE)
    /\ rules_env = IdleEnv
    /\ entry_indicators = EmptyDict
    /\ evalResult = NoEval
    /\ rule_outcomes = <<>>
    /\ initialize_returned = Null

\* the external rules read the snapshot only through the rule objects, whose
\* answers are drawn directly, so one snapshot stands for all of them there
EvalInit ==
    /\ rules_env \in RuleEnvs
    /\ rule_evaluator \in {FreshEvaluator(c) : c \in BOOLEAN}
    /\ entry_indicators \in
          IF UsesRules(initialize(rule_evaluator, rules_env), rules_env)
          THEN {SampleSnapshot} ELSE EntrySnapshots
    /\ evalResult = NoEval
    /\ rule_outcomes = <<>>
    /\ initialize_returned = Null

InitializeEvaluator ==
    /\ rule_evaluator' = initialize(rule_evaluator, rules_env)
    /\ initialize_returned' = Some(initialize_returns(rule_evaluator, rules_env))
    /\ UNCHANGED <<rules_env, entry_indicators, evalResult, rule_outcomes>>
    /\ UNCHANGED <<scoreVars, levelVars, exitVars, outcomeVars, batchVars, reportVars, posVars, runVars, rankVars, cacheVars, persistVars, mainVars>>

\* one call per snapshot, as analyze_position makes
EvaluateAtTime ==
    /\ evalResult = NoEval
    /\ LET ev1 == IF rule_evaluator.initialized THEN rule_evaluator
                  ELSE initialize(rule_evaluator, rules_env)
           asked == IF UsesRules(ev1, rules_env) THEN Len(ev1.rules) ELSE 0
       IN \E outcomes \in [1..asked -> RuleOutcomes] :
            LET r == evaluate_at_time(rule_evaluator, rules_env, entry_indicators, outcomes)
            IN /\ rule_evaluator' = r.evaluator
               /\ evalResult' = r.result
               /\ rule_outcomes' = outcomes
    /\ UNCHANGED <<rules_env, entry_indicators, initialize_returned>>
    /\ UNCHANGED <<scoreVars, levelVars, exitVars, outcomeVars, batchVars, reportVars, posVars, runVars, rankVars, cacheVars, persistVars, mainVars>>

\* ------------------------------------- signal-outcome analyzer: inputs, steps
PositionIds == {1, 2}

\* what an analysis records of its entry: signal, confidence, exit, rules, metrics
EntryRecords ==
    { [entry_signal_type |-> "BUY", entry_signal_confidence |-> Conf(100),
       exit_type |-> "profit_target", risk_metrics |-> [rsi |-> 25],
       entry_rules_evaluated |-> <<RuleEvaluation("trend_following", TRUE, "BUY", Conf(100))>>],
      [entry_signal_type |-> "BUY", entry_signal_confidence |-> Conf(75),
       exit_type |-> "stop_loss", risk_metrics |-> EmptyDict,
       entry_rules_evaluated |-> <<RuleEvaluation("trend_following", TRUE, "BUY", Conf(70)),
                                   RuleEvaluation("rsi_oversold", TRUE, "BUY", Conf(80)),
                                   RuleEvaluation("rsi_overbought", FALSE, NONE, 0)>>],
      [entry_signal_type |-> "SELL", entry_signal_confidence |-> Conf(50),
       exit_type |-> "manual", risk_metrics |-> [rsi |-> 70],
       entry_rules_evaluated |-> <<RuleEvaluation("rsi_overbought", TRUE, "SELL", Conf(50))>>],
      [entry_signal_type |-> "BUY", entry_signal_confidence |-> Conf(25),
       exit_type |-> "time_based", risk_metrics |-> [rsi |-> 30],
       entry_rules_evaluated |-> <<RuleEvaluation(RuleName(1), TRUE, "BUY", Conf(25)),
                                   RuleEvaluation(RuleName(1), TRUE, "BUY", Conf(25))>>],
      [entry_signal_type |-> NONE, entry_signal_confidence |-> Conf(0),
       exit_type |-> "manual", risk_metrics |-> [rsi |-> 0],
       entry_rules_evaluated |-> <<>>],
      [entry_signal_type |-> "SELL", entry_signal_confidence |-> Conf(102),
       exit_type |-> "trailing_stop", risk_metrics |-> [rsi |-> 101],
       entry_rules_evaluated |-> <<RuleEvaluation("moving_average_crossover", TRUE, "SELL",
                                                  Conf(102))>>] }

OutcomeAnalysis(id, e) ==
    [position_id |-> id, entry_signal_type |-> e.entry_signal_type,
     entry_signal_confidence |-> e.entry_signal_confidence, exit_type |-> e.exit_type,
     risk_metrics |-> e.risk_metrics, entry_rules_evaluated |-> e.entry_rules_evaluated]

OutcomeAnalyses == {OutcomeAnalysis(id, e) : id \in PositionIds, e \in EntryRecords}

\* a position of the map: without a realized return, a winner, or a loser
OutcomePositions(id) ==
    { Position(id, "AAPL", "closed", Null, Null),
      [Position(id, "AAPL", "closed", Some(10 * RetScale), Some(7))
          EXCEPT !.risk_metrics_at_entry = [regime |-> "bull", rsi_14 |-> 45]],
      [Position(id, "AAPL", "closed", Some(-5 * RetScale), Some(3))
          EXCEPT !.risk_metrics_at_entry = [regime |-> "bear"]],
      Position(id, "AAPL", "closed", Some(10 * RetScale + 40), Some(7)),
      Position(id, "AAPL", "closed", Some(10 * RetScale + 10), Some(7)) }

PositionMaps ==
    UNION { [ids -> UNION {OutcomePositions(id) : id \in PositionIds}] :
            ids \in SUBSET PositionIds }

NoReport == SignalOutcomeReport(-1)

OutcomeIdle == analyses = <<>> /\ positions_by_id = EmptyDict /\ report = NoReport

OutcomeInit ==
    /\ analyses \in UNION {[1..n -> OutcomeAnalyses] : n \in 0..MaxAnalyses}
    /\ positions_by_id \in {m \in PositionMaps : \A id \in DOMAIN m : m[id].id = id}
    /\ report = NoReport

Analyze ==
    /\ report = NoReport
    /\ report' = analyze(analyses, positions_by_id)
    /\ UNCHANGED <<analyses, positions_by_id>>
    /\ UNCHANGED <<scoreVars, levelVars, exitVars, evalVars, batchVars, reportVars, posVars, runVars, rankVars, cacheVars, persistVars, mainVars>>

\* ---------------------------------------------------- batch loops: steps
\* closed positions, newest exit first: position ids without repetition
ClosedLists ==
    {l \in UNION {[1..n -> 1..MaxPositions] : n \in 0..MaxPositions} :
        \A a, b \in DOMAIN l : a # b => l[a] # l[b]}

BatchIdle ==
    /\ trade_analyzer = [initialized |-> FALSE]
    /\ journal = [conn |-> FALSE, closed |-> <<>>, analyzed |-> {}]
    /\ batch = NoBatch
    /\ passes = <<>>

BatchInit ==
    /\ trade_analyzer \in {[initialized |-> init] : init \in BOOLEAN}
    /\ journal \in {[conn |-> trade_analyzer.initialized, closed |-> l, analyzed |-> done] :
                        l \in ClosedLists, done \in {{}, {1}}}
    /\ batch = NoBatch
    /\ passes = <<>>

\* DeviationAnalyzer.analyze_positions(positions), up to its loop
AnalyzePositions ==
    /\ batch.status = "idle"
    /\ batch' = Batch("analyze_positions", FALSE, journal.closed, "running")
    /\ UNCHANGED <<trade_analyzer, journal, passes>>
    /\ UNCHANGED <<scoreVars, levelVars, exitVars, evalVars, outcomeVars, reportVars, posVars, runVars, rankVars, cacheVars, persistVars, mainVars>>

AnalyzeBatch(op, update_db, connects, query) ==
    /\ batch.status = "idle"
    /\ LET r == StartBatch(trade_analyzer, journal, op, update_db, connects, query)
       IN /\ trade_analyzer' = r.analyzer
          /\ journal' = r.repo
          /\ batch' = r.batch
    /\ UNCHANGED passes
    /\ UNCHANGED <<scoreVars, levelVars, exitVars, evalVars, outcomeVars, reportVars, posVars, runVars, rankVars, cacheVars, persistVars, mainVars>>

AnalyzeUnanalyzed ==
    \E update_db, connects \in BOOLEAN, query \in QueryOutcomes :
        AnalyzeBatch("analyze_unanalyzed", update_db, connects, query)

AnalyzeAll ==
    \E update_db, connects \in BOOLEAN, query \in QueryOutcomes :
        AnalyzeBatch("analyze_all", update_db, connects, query)

\* the loop takes the next position
AnalyzeNextPosition ==
    /\ batch.status = "running"
    /\ batch.i <= Len(batch.positions)
    /\ \E outcome \in PassOutcomes :
          /\ (~Persists(batch)) => outcome.update = "ok"
          /\ LET r == LoopPass(batch, journal, outcome)
             IN /\ batch' = r.batch
                /\ journal' = r.repo
          /\ passes' = Append(passes, outcome)
    /\ UNCHANGED trade_analyzer
    /\ UNCHANGED <<scoreVars, levelVars, exitVars, evalVars, outcomeVars, reportVars, posVars, runVars, rankVars, cacheVars, persistVars, mainVars>>

\* the loop is through: return analyses
ReturnAnalyses ==
    /\ batch.status = "running"
    /\ batch.i > Len(batch.positions)
    /\ batch' = [batch EXCEPT !.status = "returned"]
    /\ UNCHANGED <<trade_analyzer, journal, passes>>
    /\ UNCHANGED <<scoreVars, levelVars, exitVars, evalVars, outcomeVars, reportVars, posVars, runVars, rankVars, cacheVars, persistVars, mainVars>>

\* ---------------------------------------------- deviation report: steps
\* a scored TradeAnalysis of the position with this id
ScoredAnalysis(id, matched, confidence, recommended, deviation, exit_type) ==
    calculate_compliance_score(
        [position_id |-> id, entry_signal_matched |-> matched,
         entry_signal_confidence |-> confidence, recommended_shares |-> recommended,
         position_size_deviation |-> deviation, exit_type |-> exit_type,
         rule_compliance_score |-> 0, compliance_level |-> "non_compliant"])

\* scores 0.90, 0.55, 0.45 and 0.25
ReportAnalyses ==
    UNION {{ScoredAnalysis(id, TRUE, Conf(75), Some(100), 0, "profit_target"),
            ScoredAnalysis(id, TRUE, Conf(50), Null, 0, "time_based"),
            ScoredAnalysis(id, FALSE, Conf(50), Some(100), 50, "stop_loss"),
            ScoredAnalysis(id, FALSE, Conf(0), Null, 0, "manual")} : id \in PositionIds}

Orderings(l) ==
    {[i \in DOMAIN l |-> l[f[i]]] :
        f \in {g \in [DOMAIN l -> DOMAIN l] : \A a, b \in DOMAIN l : a # b => g[a] # g[b]}}

NoDeviationReport == [DeviationReport(<<>>) EXCEPT !.metrics.total_positions = -1]

ReportIdle ==
    /\ report_orderings = <<<<>>, <<>>>>
    /\ journal_rows = EmptyDict
    /\ deviation_reports = <<NoDeviationReport, NoDeviationReport>>

ReportInit ==
    /\ report_orderings \in
          {<<l, m>> : l \in UNION {[1..n -> ReportAnalyses] : n \in 0..MaxAnalyses},
                      m \in UNION {[1..n -> ReportAnalyses] : n \in 0..MaxAnalyses}}
    /\ report_orderings[2] \in Orderings(report_orderings[1])
    /\ journal_rows \in {m \in PositionMaps : \A id \in DOMAIN m : m[id].id = id}
    /\ deviation_reports = <<NoDeviationReport, NoDeviationReport>>

\* DeviationAnalyzer.generate_report on one of the two orderings
GenerateReport(k) ==
    /\ deviation_reports[k] = NoDeviationReport
    /\ deviation_reports' =
          [deviation_reports EXCEPT ![k] = generate_report(report_orderings[k], journal_rows)]
    /\ UNCHANGED <<report_orderings, journal_rows>>
    /\ UNCHANGED <<scoreVars, levelVars, exitVars, evalVars, outcomeVars, batchVars, posVars, runVars, rankVars, cacheVars, persistVars, mainVars>>

\* ---------------------------------------------- analyze_position: steps
\* static thresholds 5% / -3%: a profit target, a stop loss, and two small
\* returns that end time-based after 25 days and manual or trailing otherwise
AnalyzedPositions ==
    {[Position(1, "AAPL", "closed", Some(pct * RetScale), Some(days)) EXCEPT !.quantity = q] :
        pct \in {6, -4, 1, -1}, days \in {3, 25}, q \in {50, 100, 150}}
    \cup {Position(1, "AAPL", "open", Null, Null)}

EntryInputs ==
    {EmptyDict, [close |-> 150, sma_200 |-> 140], [close |-> 130, sma_200 |-> 140],
     [rsi_14 |-> 25],
     [close |-> 150, sma_200 |-> 140, sma_50 |-> 145, rsi_14 |-> 55, atr_14 |-> 2]}

ExitInputs == {EmptyDict, [atr_14 |-> 2, close |-> 150, high |-> 153]}

RiskAnswers == {RiskNone, RiskRaises, RiskResult(0), RiskResult(100)}

\* fallback heuristics, or two rules of the local configuration file
AnalyzerEnvs ==
    {IdleEnv, [IdleEnv EXCEPT !.has_decision_engine = TRUE, !.yaml = Some(2)]}

DeviationAnalyzers ==
    [rule_evaluator : {FreshEvaluator(FALSE)}, rules_env : AnalyzerEnvs,
     exit_classifier : StaticClassifiers, rules_store : {IdleStore}]

NoAnalysis == [position_id |-> 0]

PositionIdle ==
    /\ analysis_input = [position |-> Position(1, "AAPL", "open", Null, Null),
                         entry_indicators |-> EmptyDict, exit_indicators |-> EmptyDict,
                         risk |-> RiskNone]
    /\ deviation_analyzer = [rule_evaluator |-> FreshEvaluator(FALSE), rules_env |-> IdleEnv,
                             exit_classifier |-> [rules_client |-> FALSE,
                                                  default_profit_threshold |-> 500,
                                                  default_stop_threshold |-> -300],
                             rules_store |-> IdleStore]
    /\ trade_analysis = NoAnalysis

PositionInit ==
    /\ analysis_input \in [position : AnalyzedPositions, entry_indicators : EntryInputs,
                           exit_indicators : ExitInputs, risk : RiskAnswers]
    /\ deviation_analyzer \in DeviationAnalyzers
    /\ trade_analysis = NoAnalysis

\* DeviationAnalyzer.analyze_position(position)
AnalyzePosition ==
    /\ trade_analysis = NoAnalysis
    /\ LET da == deviation_analyzer
           in == analysis_input
           ev1 == IF da.rule_evaluator.initialized THEN da.rule_evaluator
                  ELSE initialize(da.rule_evaluator, da.rules_env)
           asked == IF in.entry_indicators # EmptyDict /\ UsesRules(ev1, da.rules_env)
                    THEN Len(ev1.rules) ELSE 0
       IN \E outcomes \in [1..asked -> RuleOutcomes] :
            LET r == IF in.entry_indicators # EmptyDict
                     THEN evaluate_at_time(da.rule_evaluator, da.rules_env,
                                           in.entry_indicators, outcomes)
                     ELSE [evaluator |-> da.rule_evaluator, result |-> NoEval]
            IN /\ deviation_analyzer' = [da EXCEPT !.rule_evaluator = r.evaluator]
               /\ trade_analysis' =
                    analyze_position(in.position, in.entry_indicators, in.exit_indicators,
                                     r.result, in.risk, da.exit_classifier,
                                     da.rules_store, "none")
    /\ UNCHANGED analysis_input
    /\ UNCHANGED <<scoreVars, levelVars, exitVars, evalVars, outcomeVars, batchVars, reportVars, runVars, rankVars, cacheVars, persistVars, mainVars>>

\* --------------------------------------------------- runner: inputs, steps
RunnerIdle ==
    /\ runner = FreshRunner(FALSE)
    /\ control = "idle"
    /\ run_batch = NoRun
    /\ run_repo = [conn |-> FALSE, closed |-> <<>>, analyzed |-> {}]
    /\ iterations = 0
    /\ shutdown_log = NoShutdown

\* main has initialized the runner (line 333) and registered its handlers
RunnerInit ==
    /\ runner \in {FreshRunner(d) : d \in BOOLEAN}
    /\ control = "main"
    /\ run_batch = NoRun
    /\ run_repo \in {[conn |-> TRUE, closed |-> [i \in 1..n |-> i], analyzed |-> done] :
                        n \in 0..MaxPositions, done \in SUBSET {1}}
    /\ iterations = 0
    /\ shutdown_log = NoShutdown

\* main's finally clause (lines 371-372)
Finally(stopped_in) ==
    LET sd == shutdown(runner, run_repo)
    IN /\ runner' = sd.runner
       /\ run_repo' = sd.repo
       /\ control' = "returned"
       /\ run_batch' = [run_batch EXCEPT !.phase = "none"]
       /\ shutdown_log' = [shutdown_log EXCEPT !.stopped_in = stopped_in]

\* run_analysis (lines 52-77): the daemon installs its handlers first
RunAnalysis ==
    /\ control = "main"
    /\ IF runner.daemon
       THEN /\ runner' = [runner EXCEPT !._running = TRUE, !.handler = "handle_signal"]
            /\ control' = "loop"
       ELSE /\ control' = "run_once"
            /\ UNCHANGED runner
    /\ UNCHANGED <<run_batch, run_repo, iterations, shutdown_log>>
    /\ UNCHANGED <<scoreVars, levelVars, exitVars, evalVars, outcomeVars, batchVars, reportVars, posVars, rankVars, cacheVars, persistVars, mainVars>>

\* the head of one pass of `while self._running` (lines 129-135)
DaemonLoop(connects) ==
    /\ control = "loop"
    /\ IF ~runner._running
       THEN Finally(IF shutdown_log.requested THEN "loop" ELSE NONE) /\ UNCHANGED iterations
       ELSE /\ iterations < MaxCalls
            /\ iterations' = iterations + 1
            /\ control' = IF connects THEN "run_once" ELSE "backoff"
            /\ run_repo' = [run_repo EXCEPT !.conn = connects]
            /\ UNCHANGED <<runner, run_batch, shutdown_log>>
    /\ UNCHANGED <<scoreVars, levelVars, exitVars, evalVars, outcomeVars, batchVars, reportVars, posVars, rankVars, cacheVars, persistVars, mainVars>>

\* _run_once up to the loop of analyze_unanalyzed (runner.py 91-92, analyzer.py 81-89)
RunOnce(query) ==
    /\ control = "run_once"
    /\ LET fetched == get_closed_positions(run_repo, TRUE, query)
       IN IF fetched.raised
          THEN IF runner.daemon
               THEN /\ control' = "backoff"
                    /\ UNCHANGED <<runner, run_batch, run_repo, shutdown_log>>
               ELSE Finally(NONE)
          ELSE /\ run_batch' = RunBatch(fetched.rows, 1, "boundary", <<>>)
               /\ control' = "batch"
               /\ UNCHANGED <<runner, run_repo, shutdown_log>>
    /\ UNCHANGED iterations
    /\ UNCHANGED <<scoreVars, levelVars, exitVars, evalVars, outcomeVars, batchVars, reportVars, posVars, rankVars, cacheVars, persistVars, mainVars>>

\* `for position in positions:` takes the next position (analyzer.py 92-94)
BeginPosition ==
    /\ control = "batch" /\ run_batch.phase = "boundary"
    /\ run_batch.i <= Len(run_batch.positions)
    /\ run_batch' = [run_batch EXCEPT !.phase = "analysing"]
    /\ shutdown_log' =
          IF shutdown_log.requested
          THEN [shutdown_log EXCEPT !.started_after = @ \cup {run_batch.positions[run_batch.i]}]
          ELSE shutdown_log
    /\ UNCHANGED <<runner, control, run_repo, iterations>>
    /\ UNCHANGED <<scoreVars, levelVars, exitVars, evalVars, outcomeVars, batchVars, reportVars, posVars, rankVars, cacheVars, persistVars, mainVars>>

\* analyze_position returns and is appended, or raises into the except (94-95, 106-107)
FinishAnalysis(returns) ==
    /\ control = "batch" /\ run_batch.phase = "analysing"
    /\ run_batch' =
          IF returns
          THEN [run_batch EXCEPT !.phase = "persisting",
                                 !.analyses = Append(@, run_batch.positions[run_batch.i])]
          ELSE [run_batch EXCEPT !.phase = "boundary", !.i = @ + 1]
    /\ UNCHANGED <<runner, control, run_repo, iterations, shutdown_log>>
    /\ UNCHANGED <<scoreVars, levelVars, exitVars, evalVars, outcomeVars, batchVars, reportVars, posVars, rankVars, cacheVars, persistVars, mainVars>>

\* _update_position writes the analysis (analyzer.py 97-98)
FinishPersist(query) ==
    /\ control = "batch" /\ run_batch.phase = "persisting"
    /\ run_repo' = update_position_analysis(run_repo, run_batch.positions[run_batch.i],
                                            query).repo
    /\ run_batch' = [run_batch EXCEPT !.phase = "boundary", !.i = @ + 1]
    /\ UNCHANGED <<runner, control, iterations, shutdown_log>>
    /\ UNCHANGED <<scoreVars, levelVars, exitVars, evalVars, outcomeVars, batchVars, reportVars, posVars, rankVars, cacheVars, persistVars, mainVars>>

\* the loop is through: _run_once returns; the daemon goes to sleep
\* (runner.py 137-149), the single run returns to main
EndBatch ==
    /\ control = "batch" /\ run_batch.phase = "boundary"
    /\ run_batch.i > Len(run_batch.positions)
    /\ IF runner.daemon
       THEN /\ control' = "sleeping"
            /\ run_batch' = [run_batch EXCEPT !.phase = "none"]
            /\ UNCHANGED <<runner, run_repo, shutdown_log>>
       ELSE Finally(NONE)
    /\ UNCHANGED iterations
    /\ UNCHANGED <<scoreVars, levelVars, exitVars, evalVars, outcomeVars, batchVars, reportVars, posVars, rankVars, cacheVars, persistVars, mainVars>>

\* the one-second sleeps end, by the interval or by the flag (lines 145-149);
\* the 30-second sleep after a failed reconnect or an error ends (134, 153)
Wake ==
    /\ control \in {"sleeping", "backoff"}
    /\ control' = "loop"
    /\ UNCHANGED <<runner, run_batch, run_repo, iterations, shutdown_log>>
    /\ UNCHANGED <<scoreVars, levelVars, exitVars, evalVars, outcomeVars, batchVars, reportVars, posVars, rankVars, cacheVars, persistVars, mainVars>>

\* SIGTERM or SIGINT arrives; Python runs the handler in force in the main
\* thread, wherever that is: handle_signal only clears the flag,
\* _handle_shutdown shuts down and raises SystemExit there, which no
\* `except Exception` of the loop catches
Signal ==
    /\ control \notin {"idle", "returned", "exited"}
    /\ ~shutdown_log.requested
    /\ IF runner.handler = "handle_signal"
       THEN /\ runner' = handle_signal(runner)
            /\ shutdown_log' = [shutdown_log EXCEPT !.requested = TRUE]
            /\ UNCHANGED <<control, run_batch, run_repo>>
       ELSE LET sd == shutdown(runner, run_repo)
            IN /\ runner' = sd.runner
               /\ run_repo' = sd.repo
               /\ control' = "exited"
               /\ shutdown_log' = [shutdown_log EXCEPT !.requested = TRUE,
                                                       !.stopped_in = run_batch.phase]
               /\ UNCHANGED run_batch
    /\ UNCHANGED iterations
    /\ UNCHANGED <<scoreVars, levelVars, exitVars, evalVars, outcomeVars, batchVars, reportVars, posVars, rankVars, cacheVars, persistVars, mainVars>>

\* ------------------------------------- deviation report of a batch: steps
\* the four scored analyses a position of the batch may have
BatchKinds == 1..4
BatchAnalysis(id, kind) ==
    CASE kind = 1 -> ScoredAnalysis(id, TRUE, Conf(75), Some(100), 0, "profit_target")
      [] kind = 2 -> ScoredAnalysis(id, TRUE, Conf(50), Null, 0, "time_based")
      [] kind = 3 -> ScoredAnalysis(id, FALSE, Conf(50), Some(100), 50, "stop_loss")
      [] OTHER -> ScoredAnalysis(id, FALSE, Conf(0), Null, 0, "manual")

\* the journal rows of the batch: odd positions won, even ones lost
BatchRows ==
    [id \in 1..(MaxBatch + 1) |->
        Position(id, "AAPL", "closed",
                 Some(IF id % 2 = 1 THEN 10 * RetScale ELSE -5 * RetScale), Some(7))]

RankingIdle == ranked_batch = <<>> /\ ranked_report = NoDeviationReport

\* one analysis a position, positions 1..n in any mix of the four kinds
RankingInit ==
    /\ ranked_batch \in
          UNION {{[i \in 1..n |-> BatchAnalysis(i, kinds[i])] : kinds \in [1..n -> BatchKinds]} :
                 n \in 0..MaxBatch}
    /\ ranked_report = NoDeviationReport

GenerateBatchReport ==
    /\ ranked_report = NoDeviationReport
    /\ ranked_report' = generate_report(ranked_batch, BatchRows)
    /\ UNCHANGED ranked_batch
    /\ UNCHANGED <<scoreVars, levelVars, exitVars, evalVars, outcomeVars, batchVars, reportVars, posVars, runVars, cacheVars, persistVars, mainVars>>

\* ------------------------------------------------- rules client: steps
NoCall == [op |-> "none"]

CacheIdle == client = FreshClient /\ utcnow = 0 /\ config_call = NoCall
CacheInit == CacheIdle

RulesConnect ==
    /\ ~client.redis
    /\ client' = connect(client)
    /\ UNCHANGED <<utcnow, config_call>>
    /\ UNCHANGED <<scoreVars, levelVars, exitVars, evalVars, outcomeVars, batchVars, reportVars, posVars, runVars, rankVars, persistVars, mainVars>>

RulesClose ==
    /\ client.redis
    /\ client' = close(client)
    /\ UNCHANGED <<utcnow, config_call>>
    /\ UNCHANGED <<scoreVars, levelVars, exitVars, evalVars, outcomeVars, batchVars, reportVars, posVars, runVars, rankVars, persistVars, mainVars>>

GetConfig(force_refresh, redis_get) ==
    LET r == get_config(client, utcnow, force_refresh, redis_get)
    IN /\ client' = r.client
       /\ config_call' = [op |-> "get_config", force_refresh |-> force_refresh,
                          redis_get |-> redis_get, before |-> client, after |-> r.client,
                          now |-> utcnow,
                          read |-> r.read, returned |-> r.returned, raised |-> r.raised]
       /\ UNCHANGED utcnow
       /\ UNCHANGED <<scoreVars, levelVars, exitVars, evalVars, outcomeVars, batchVars, reportVars, posVars, runVars, rankVars, persistVars, mainVars>>

\* time passing between calls: just under a minute, or a minute
ClockSteps == {59, 60}
Tick(seconds) ==
    /\ utcnow + seconds <= MaxClock
    /\ utcnow' = utcnow + seconds
    /\ UNCHANGED <<client, config_call>>
    /\ UNCHANGED <<scoreVars, levelVars, exitVars, evalVars, outcomeVars, batchVars, reportVars, posVars, runVars, rankVars, persistVars, mainVars>>

\* --------------------------------------- persisting one analysis: steps
\* what a run's analysis of the position may hold
PersistedAnalyses ==
    { [rule_compliance_score |-> Score(90), entry_signal_confidence |-> Conf(75),
       entry_signal_type |-> Some("BUY"), position_size_deviation |-> 0,
       exit_type |-> "profit_target", risk_metrics |-> [rsi |-> 25],
       notes |-> <<"Profit target hit - followed exit rules">>, warnings |-> <<>>],
      [rule_compliance_score |-> Score(25), entry_signal_confidence |-> Conf(0),
       entry_signal_type |-> Null, position_size_deviation |-> 50,
       exit_type |-> "manual", risk_metrics |-> EmptyDict,
       notes |-> <<>>, warnings |-> <<>>],
      [rule_compliance_score |-> Score(55), entry_signal_confidence |-> Conf(50),
       entry_signal_type |-> Some("SELL"), position_size_deviation |-> -20,
       exit_type |-> "stop_loss", risk_metrics |-> [atr |-> 2],
       notes |-> <<>>, warnings |-> <<"Entry was against a SELL signal">>],
      [rule_compliance_score |-> Score(55), entry_signal_confidence |-> Conf(40),
       entry_signal_type |-> Some("BUY"), position_size_deviation |-> 0,
       exit_type |-> "unknown", risk_metrics |-> EmptyDict,
       notes |-> <<"Entry signal confidence below threshold", "Manual exit">>,
       warnings |-> <<"No indicator data available at entry time">>] }

NoPersist == [op |-> "none"]

PersistIdle == journal_row = UnanalyzedRow /\ persist_call = NoPersist /\ persist_runs = 0
PersistInit == PersistIdle

\* one run's _update_position of the position, at the time of that run
UpdatePosition(a, conn, query) ==
    /\ persist_runs <= MaxCalls
    /\ LET r == _update_position(journal_row, conn, a, persist_runs + 1, query)
       IN /\ journal_row' = r.row
          /\ persist_call' = [op |-> "_update_position", analysis |-> a, conn |-> conn,
                              now |-> persist_runs + 1, before |-> journal_row,
                              ok |-> r.ok, raised |-> r.raised]
    /\ persist_runs' = persist_runs + 1
    /\ UNCHANGED <<scoreVars, levelVars, exitVars, evalVars, outcomeVars, batchVars, reportVars, posVars, runVars, rankVars, cacheVars, mainVars>>

\* ------------------------------------------------- main(): steps
MainIdle ==
    /\ call_stack = <<>>
    /\ shutdown_called = FALSE
    /\ analyzer_shutdowns = 0
    /\ signals_delivered = 0

\* main() after runner.initialize() and signal.signal(...), in its try block
MainInit ==
    /\ call_stack = <<Frame("main", "try")>>
    /\ shutdown_called = FALSE
    /\ analyzer_shutdowns = 0
    /\ signals_delivered = 0

Top == call_stack[Len(call_stack)]
ProcessEnded == Len(call_stack) = 1 /\ call_stack[1].at \in {"return", "exited"}

\* the command of the try block ends: the finally clause calls runner.shutdown()
CommandEnds ==
    /\ call_stack = <<Frame("main", "try")>>
    /\ call_stack' = <<Frame("main", "check")>>
    /\ UNCHANGED <<shutdown_called, analyzer_shutdowns, signals_delivered>>
    /\ UNCHANGED <<scoreVars, levelVars, exitVars, evalVars, outcomeVars, batchVars, reportVars, posVars, runVars, rankVars, cacheVars, persistVars>>

\* the frame on top takes one step of runner.shutdown()
ShutdownStep ==
    /\ call_stack # <<>>
    /\ Top.at \in {"check", "set", "call", "analyzer.shutdown"}
    /\ LET r == shutdown_step(Top.at, shutdown_called)
       IN /\ call_stack' = [call_stack EXCEPT ![Len(call_stack)].at = r.at]
          /\ shutdown_called' = r.called
          /\ analyzer_shutdowns' = analyzer_shutdowns + r.starts
    /\ UNCHANGED signals_delivered
    /\ UNCHANGED <<scoreVars, levelVars, exitVars, evalVars, outcomeVars, batchVars, reportVars, posVars, runVars, rankVars, cacheVars, persistVars>>

\* _handle_shutdown after runner.shutdown() returned: sys.exit(0)
HandlerExits ==
    /\ Len(call_stack) > 1
    /\ Top.at = "return"
    /\ call_stack' = SystemExit(call_stack)
    /\ UNCHANGED <<shutdown_called, analyzer_shutdowns, signals_delivered>>
    /\ UNCHANGED <<scoreVars, levelVars, exitVars, evalVars, outcomeVars, batchVars, reportVars, posVars, runVars, rankVars, cacheVars, persistVars>>

\* SIGTERM or SIGINT: _handle_shutdown starts on top of whatever was running
DeliverSignal ==
    /\ call_stack # <<>>
    /\ ~ProcessEnded
    /\ signals_delivered < MaxSignals
    /\ call_stack' = Append(call_stack, Frame("_handle_shutdown", "check"))
    /\ signals_delivered' = signals_delivered + 1
    /\ UNCHANGED <<shutdown_called, analyzer_shutdowns>>
    /\ UNCHANGED <<scoreVars, levelVars, exitVars, evalVars, outcomeVars, batchVars, reportVars, posVars, runVars, rankVars, cacheVars, persistVars>>

\* ---------------------------------------------------------- specifications
ScoreNext == CalculateComplianceScore
InitScore == ScoreInit /\ LevelIdle /\ ExitIdle /\ EvalIdle /\ OutcomeIdle /\ BatchIdle /\ ReportIdle /\ PositionIdle /\ RunnerIdle /\ RankingIdle /\ CacheIdle /\ PersistIdle /\ MainIdle
SpecScore == InitScore /\ [][ScoreNext]_vars

LevelNext == \E s \in ScoreGrid : FromScore(s)
InitLevel == ScoreIdle /\ LevelIdle /\ ExitIdle /\ EvalIdle /\ OutcomeIdle /\ BatchIdle /\ ReportIdle /\ PositionIdle /\ RunnerIdle /\ RankingIdle /\ CacheIdle /\ PersistIdle /\ MainIdle
SpecLevel == InitLevel /\ [][LevelNext]_vars

ExitNext == \E err \in RedisErrors : Classify(err)
InitExit == ScoreIdle /\ LevelIdle /\ ExitInit /\ EvalIdle /\ OutcomeIdle /\ BatchIdle /\ ReportIdle /\ PositionIdle /\ RunnerIdle /\ RankingIdle /\ CacheIdle /\ PersistIdle /\ MainIdle
SpecExit == InitExit /\ [][ExitNext]_vars

EvalNext == InitializeEvaluator \/ EvaluateAtTime
InitEval == ScoreIdle /\ LevelIdle /\ ExitIdle /\ EvalInit /\ OutcomeIdle /\ BatchIdle /\ ReportIdle /\ PositionIdle /\ RunnerIdle /\ RankingIdle /\ CacheIdle /\ PersistIdle /\ MainIdle
SpecEval == InitEval /\ [][EvalNext]_vars

OutcomeNext == Analyze
InitOutcome == ScoreIdle /\ LevelIdle /\ ExitIdle /\ EvalIdle /\ OutcomeInit /\ BatchIdle /\ ReportIdle /\ PositionIdle /\ RunnerIdle /\ RankingIdle /\ CacheIdle /\ PersistIdle /\ MainIdle
SpecOutcome == InitOutcome /\ [][OutcomeNext]_vars

BatchNext ==
    AnalyzePositions \/ AnalyzeUnanalyzed \/ AnalyzeAll \/ AnalyzeNextPosition \/ ReturnAnalyses
InitBatch == ScoreIdle /\ LevelIdle /\ ExitIdle /\ EvalIdle /\ OutcomeIdle /\ BatchInit /\ ReportIdle /\ PositionIdle /\ RunnerIdle /\ RankingIdle /\ CacheIdle /\ PersistIdle /\ MainIdle
SpecBatch == InitBatch /\ [][BatchNext]_vars

ReportNext == \E k \in 1..2 : GenerateReport(k)
InitReport == ScoreIdle /\ LevelIdle /\ ExitIdle /\ EvalIdle /\ OutcomeIdle /\ BatchIdle /\ ReportInit /\ PositionIdle /\ RunnerIdle /\ RankingIdle /\ CacheIdle /\ PersistIdle /\ MainIdle
SpecReport == InitReport /\ [][ReportNext]_vars

PositionNext == AnalyzePosition
InitPosition == ScoreIdle /\ LevelIdle /\ ExitIdle /\ EvalIdle /\ OutcomeIdle /\ BatchIdle /\ ReportIdle /\ PositionInit /\ RunnerIdle /\ RankingIdle /\ CacheIdle /\ PersistIdle /\ MainIdle
SpecPosition == InitPosition /\ [][PositionNext]_vars

RunnerNext ==
    \/ RunAnalysis
    \/ \E connects \in BOOLEAN : DaemonLoop(connects)
    \/ \E query \in QueryOutcomes : RunOnce(query)
    \/ BeginPosition
    \/ \E returns \in BOOLEAN : FinishAnalysis(returns)
    \/ \E query \in QueryOutcomes : FinishPersist(query)
    \/ EndBatch
    \/ Wake
    \/ Signal
InitRunner == ScoreIdle /\ LevelIdle /\ ExitIdle /\ EvalIdle /\ OutcomeIdle /\ BatchIdle /\ ReportIdle /\ PositionIdle /\ RunnerInit /\ RankingIdle /\ CacheIdle /\ PersistIdle /\ MainIdle
SpecRunner == InitRunner /\ [][RunnerNext]_vars

\* the main thread keeps running: every run, database call and sleep it is
\* in comes to its end; signals arrive or not
RunnerMainThread ==
    \/ RunAnalysis
    \/ \E connects \in BOOLEAN : DaemonLoop(connects)
    \/ \E query \in QueryOutcomes : RunOnce(query)
    \/ BeginPosition
    \/ \E returns \in BOOLEAN : FinishAnalysis(returns)
    \/ \E query \in QueryOutcomes : FinishPersist(query)
    \/ EndBatch
    \/ Wake
SpecRunnerFair == InitRunner /\ [][RunnerNext]_vars /\ WF_vars(RunnerMainThread)

RankingNext == GenerateBatchReport
InitRanking == ScoreIdle /\ LevelIdle /\ ExitIdle /\ EvalIdle /\ OutcomeIdle /\ BatchIdle /\ ReportIdle /\ PositionIdle /\ RunnerIdle /\ RankingInit /\ CacheIdle /\ PersistIdle /\ MainIdle
SpecRanking == InitRanking /\ [][RankingNext]_vars

CacheNext ==
    \/ RulesConnect
    \/ RulesClose
    \/ \E force_refresh \in BOOLEAN, redis_get \in RedisReads : GetConfig(force_refresh, redis_get)
    \/ \E seconds \in ClockSteps : Tick(seconds)
InitCache == ScoreIdle /\ LevelIdle /\ ExitIdle /\ EvalIdle /\ OutcomeIdle /\ BatchIdle /\ ReportIdle /\ PositionIdle /\ RunnerIdle /\ RankingIdle /\ CacheInit /\ PersistIdle /\ MainIdle
SpecCache == InitCache /\ [][CacheNext]_vars

PersistNext ==
    \E a \in PersistedAnalyses, conn \in BOOLEAN, query \in QueryOutcomes :
        UpdatePosition(a, conn, query)
InitPersist == ScoreIdle /\ LevelIdle /\ ExitIdle /\ EvalIdle /\ OutcomeIdle /\ BatchIdle /\ ReportIdle /\ PositionIdle /\ RunnerIdle /\ RankingIdle /\ CacheIdle /\ PersistInit /\ MainIdle
SpecPersist == InitPersist /\ [][PersistNext]_vars

MainNext == CommandEnds \/ ShutdownStep \/ HandlerExits \/ DeliverSignal
InitMain == ScoreIdle /\ LevelIdle /\ ExitIdle /\ EvalIdle /\ OutcomeIdle /\ BatchIdle /\ ReportIdle /\ PositionIdle /\ RunnerIdle /\ RankingIdle /\ CacheIdle /\ PersistIdle /\ MainInit
SpecMain == InitMain /\ [][MainNext]_vars

\* ------------------------------------------------------------------ claims

\* C1: after calculate_compliance_score the rule_compliance_score lies in
\* [0,1], whatever the entry match, the confidence in [0,1], the recommended
\* shares (absent, 0 or positive), the size deviation and the exit type.
C1_ScoreInUnitInterval ==
    scoreCalls > 0 =>
        /\ analysis.rule_compliance_score >= 0
        /\ analysis.rule_compliance_score <= ScoreScale

\* a scored trade whose deviation exceeds 100% against a real recommendation
C1_Witness ==
    /\ scoreCalls > 0
    /\ Truthy(analysis.recommended_shares)
    /\ Abs(analysis.position_size_deviation) > 100
    /\ analysis.entry_signal_matched
    /\ analysis.entry_signal_confidence = ConfScale

LevelRank(l) ==
    CASE l = "non_compliant" -> 0
      [] l = "poor" -> 1
      [] l = "fair" -> 2
      [] l = "good" -> 3
      [] l = "excellent" -> 4

\* C8: from_score is monotonic in the order NON_COMPLIANT < POOR < FAIR <
\* GOOD < EXCELLENT, gives every score of [0,1] one level, and the level
\* changes exactly at 0.30, 0.50, 0.70 and 0.90, each boundary value
\* belonging to the higher band.
C8_FromScoreMonotonicBands ==
    /\ levelCur # NoLevelCall => levelCur.level \in ComplianceLevels
    /\ (levelPrev # NoLevelCall /\ levelPrev.score <= levelCur.score) =>
          /\ LevelRank(levelPrev.level) <= LevelRank(levelCur.level)
          /\ (levelPrev.level # levelCur.level) <=>
                (\E b \in LevelBoundaries : levelPrev.score < b /\ b <= levelCur.score)
    /\ (levelCur # NoLevelCall /\ levelCur.score \in LevelBoundaries) =>
          levelCur.level =
             (CASE levelCur.score = Score(30) -> "poor"
                [] levelCur.score = Score(50) -> "fair"
                [] levelCur.score = Score(70) -> "good"
                [] levelCur.score = Score(90) -> "excellent")

\* two successive calls one unit apart across the 0.70 boundary
C8_Witness ==
    /\ levelPrev.score = Score(70) - 1
    /\ levelCur.score = Score(70)
    /\ levelPrev.level = "fair"
    /\ levelCur.level = "good"

\* C9: the score is the sum of the entry term (confidence * 0.4 if matched,
\* else 0), the sizing term ((1 - min(|deviation|, 1)) * 0.3 if a recommended
\* share count > 0 exists, else 0.15) and the exit term (0.3 profit target or
\* stop loss, 0.25 trailing stop, 0.2 time based, 0.1 manual or unknown), and
\* compliance_level is from_score of that sum.
C9_EntryTerm ==
    IF analysis.entry_signal_matched
    THEN (analysis.entry_signal_confidence * (ScoreScale \div ConfScale) * 40) \div 100
    ELSE 0

C9_SizingTerm ==
    IF analysis.recommended_shares # Null /\ Val(analysis.recommended_shares) > 0
    THEN LET dev == Abs(analysis.position_size_deviation)
             capped == IF dev > 100 THEN 100 ELSE dev
         IN (100 - capped) * 3 * (ScoreScale \div 1000)
    ELSE (15 * ScoreScale) \div 100

C9_ExitTerm ==
    CASE analysis.exit_type = "profit_target" -> (30 * ScoreScale) \div 100
      [] analysis.exit_type = "stop_loss" -> (30 * ScoreScale) \div 100
      [] analysis.exit_type = "trailing_stop" -> (25 * ScoreScale) \div 100
      [] analysis.exit_type = "time_based" -> (20 * ScoreScale) \div 100
      [] analysis.exit_type = "manual" -> (10 * ScoreScale) \div 100
      [] analysis.exit_type = "unknown" -> (10 * ScoreScale) \div 100

C9_ScoreIsSumOfTerms ==
    scoreCalls > 0 =>
        /\ analysis.rule_compliance_score = C9_EntryTerm + C9_SizingTerm + C9_ExitTerm
        /\ analysis.compliance_level = from_score(analysis.rule_compliance_score)

\* a matched entry, a partly deviating size and a trailing-stop exit, scored
C9_Witness ==
    /\ scoreCalls > 0
    /\ analysis.entry_signal_matched
    /\ analysis.entry_signal_confidence = Conf(75)
    /\ analysis.recommended_shares = Some(100)
    /\ analysis.position_size_deviation = -50
    /\ analysis.exit_type = "trailing_stop"
    /\ analysis.rule_compliance_score = Score(70)
    /\ analysis.compliance_level = "good"

\* C2: classify returns one of the six ExitType values for every position,
\* UNKNOWN exactly when the position is not closed or has no realized P&L
\* percent, and a repeated call with the same position, exit indicators and
\* thresholds returns the same category.
C2_ClassifyTotalAndStable ==
    exitCalls > 0 =>
        /\ exitLast.exit_type \in ExitTypes
        /\ (exitLast.exit_type = "unknown") <=>
              (position.status # "closed" \/ position.realized_pl_pct = Null)
        /\ (exitCalls > 1 /\ exitPrev.thresholds = exitLast.thresholds) =>
              exitPrev.exit_type = exitLast.exit_type

\* a closed position without holding days, classified twice under the same
\* thresholds, both calls giving a category other than UNKNOWN
C2_Witness ==
    /\ exitCalls = 2
    /\ position.status = "closed"
    /\ position.realized_pl_pct # Null
    /\ position.holding_days = Null
    /\ exitPrev.thresholds = exitLast.thresholds
    /\ exitLast.exit_type = "manual"

\* C3: for a closed position with realized return r and resolved thresholds
\* P and S the first matching step decides: r >= P profit target, else
\* r <= S stop loss, else holding > 20 days and |r| < 2% time based, else the
\* trailing-stop pattern trailing stop, else manual; a position meeting both
\* the time-based and the trailing-stop conditions is TIME_BASED.
C3_Return == Val(position.realized_pl_pct) \div 100
C3_TimeBased ==
    /\ position.holding_days # Null
    /\ Val(position.holding_days) > 20
    /\ Abs(C3_Return) * 100 < 2 * RetScale
C3_Trailing ==
    /\ exit_indicators # EmptyDict
    /\ _check_trailing_stop_pattern(position, exit_indicators)

C3_ClassifyFirstMatchWins ==
    (exitCalls > 0 /\ position.status = "closed" /\ position.realized_pl_pct # Null) =>
        LET P == Val(exitLast.thresholds)[1]
            S == Val(exitLast.thresholds)[2]
        IN exitLast.exit_type =
              (IF C3_Return >= P THEN "profit_target"
               ELSE IF C3_Return <= S THEN "stop_loss"
               ELSE IF C3_TimeBased THEN "time_based"
               ELSE IF C3_Trailing THEN "trailing_stop"
               ELSE "manual")

\* held 21 days at +1% with a trailing-stop pattern in the exit indicators
C3_Witness ==
    /\ exitCalls > 0
    /\ position.status = "closed"
    /\ position.realized_pl_pct = Some(RetScale)
    /\ C3_TimeBased
    /\ C3_Trailing
    /\ exitLast.exit_type = "time_based"

\* the pool of triggered evaluations of one signal type, read off the
\* evaluations list that evaluate_at_time returned
PoolOf(sig) ==
    SelectSeq(evalResult.evaluations, LAMBDA e : e.triggered /\ e.signal_type = sig)

RECURSIVE ConfidenceSum(_)
ConfidenceSum(pool) ==
    IF pool = <<>> THEN 0 ELSE Head(pool).confidence + ConfidenceSum(Tail(pool))

\* the strategy the call took
CalledWithRules == UsesRules(rule_evaluator, rules_env)

\* C4: in both strategies the dominant signal is BUY when the BUY pool is
\* non-empty and at least as large as the SELL pool (a tie goes to BUY),
\* otherwise SELL when the SELL pool is non-empty, otherwise None with
\* confidence exactly 0; the BUY and SELL confidences are the mean of their
\* pool, the external strategy adding its boost to the BUY mean afterwards.
C4_DominantSignal ==
    evalResult # NoEval =>
        LET buy == PoolOf("BUY")
            sell == PoolOf("SELL")
        IN /\ evalResult.signal =
                (IF Len(buy) > 0 /\ Len(buy) >= Len(sell) THEN "BUY"
                 ELSE IF Len(sell) > 0 THEN "SELL" ELSE NONE)
           /\ evalResult.signal = NONE => evalResult.confidence = 0
           /\ evalResult.signal = "SELL" =>
                 evalResult.confidence * Len(sell) = ConfidenceSum(sell)
           /\ (evalResult.signal = "BUY" /\ ~CalledWithRules) =>
                 evalResult.confidence * Len(buy) = ConfidenceSum(buy)
           /\ (evalResult.signal = "BUY" /\ CalledWithRules) =>
                 /\ evalResult.confidence * Len(buy) >= ConfidenceSum(buy)
                 /\ Len(buy) = 1 => evalResult.confidence = ConfidenceSum(buy)

\* external rules, two triggered BUY against two triggered SELL: the tie is BUY
C4_Witness ==
    /\ evalResult # NoEval
    /\ CalledWithRules
    /\ Len(PoolOf("BUY")) = 2
    /\ Len(PoolOf("SELL")) = 2
    /\ evalResult.signal = "BUY"

\* C5: the aggregate confidence is in [0,1] when every rule's confidence is:
\* a dominant BUY of the external strategy has
\* min(1.0, mean + min(0.15, 0.05 * (buy_count - 1))), never above 1.0 for
\* any pool size, and the fallback strategy applies no boost.
C5_AggregateConfidenceBounded ==
    evalResult # NoEval =>
        LET buy == PoolOf("BUY")
            sum == ConfidenceSum(buy)
            n == Len(buy)
            step == (5 * ConfScale) \div 100
            cap == (15 * ConfScale) \div 100
            boost == IF step * (n - 1) < cap THEN step * (n - 1) ELSE cap
        IN /\ evalResult.confidence >= 0
           /\ evalResult.confidence <= ConfScale
           /\ (evalResult.signal = "BUY" /\ CalledWithRules) =>
                 evalResult.confidence * n =
                    (IF sum + boost * n > ConfScale * n THEN ConfScale * n
                     ELSE sum + boost * n)
           /\ (evalResult.signal = "BUY" /\ ~CalledWithRules) =>
                 evalResult.confidence * n = sum

\* five triggered BUY rules at 0.40: the boost is held at 0.15, not 0.20
C5_Witness ==
    /\ evalResult # NoEval
    /\ CalledWithRules
    /\ Len(PoolOf("BUY")) = 5
    /\ ConfidenceSum(PoolOf("BUY")) = 5 * Conf(40)
    /\ evalResult.signal = "BUY"
    /\ evalResult.confidence = Conf(55)

\* ---- signal-outcome analyzer
\* the analyses the join keeps: their position is in the map and has a return
Retained ==
    {i \in DOMAIN analyses :
        /\ analyses[i].position_id \in DOMAIN positions_by_id
        /\ positions_by_id[analyses[i].position_id].realized_pl_pct # Null}
Dropped == DOMAIN analyses \ Retained

RECURSIVE SumOver(_, _)
SumOver(S, f) ==
    IF S = {} THEN 0 ELSE LET x == CHOOSE x \in S : TRUE IN f[x] + SumOver(S \ {x}, f)

TradeCounts(metrics) == SumOver(DOMAIN metrics, [k \in DOMAIN metrics |-> metrics[k].trade_count])

\* how many of the kept analyses carry a key, and how often all of them do
RetainedWith(key, KeysOf) == Cardinality({i \in Retained : key \in KeysOf[i]})

SignalKeys == [i \in DOMAIN analyses |->
                 {IF analyses[i].entry_signal_type = NONE THEN "NONE"
                  ELSE analyses[i].entry_signal_type}]
RuleTriggers(rule_name) ==
    SumOver(Retained,
            [i \in Retained |->
                Cardinality({j \in DOMAIN analyses[i].entry_rules_evaluated :
                    /\ analyses[i].entry_rules_evaluated[j].triggered
                    /\ analyses[i].entry_rules_evaluated[j].rule_name = rule_name})])
ConditionKeys ==
    [i \in DOMAIN analyses |->
        IF i \in Retained
        THEN ConditionsOf([analysis |-> analyses[i],
                           position |-> positions_by_id[analyses[i].position_id]])
        ELSE {}]

\* C6: SignalOutcomeAnalyzer.analyze keeps an analysis only when its position
\* is in the map and has a realized return.  A dropped analysis is counted
\* under no signal type, rule, confidence bucket or condition; the trade
\* counts of the signal-type groups sum to the number of kept analyses; and
\* total_trades_analyzed is the number of analyses handed in, dropped or not.
C6_JoinDropsUnmatched ==
    report # NoReport =>
        /\ report.total_trades_analyzed = Len(analyses)
        /\ TradeCounts(report.signal_type_metrics) = Cardinality(Retained)
        /\ \A k \in DOMAIN report.signal_type_metrics :
              LET m == report.signal_type_metrics[k]
              IN /\ m.trade_count = RetainedWith(m.signal_type, SignalKeys)
                 /\ m.win_count + m.loss_count = m.trade_count
        /\ \A k \in DOMAIN report.rule_metrics :
              report.rule_metrics[k].trigger_count =
                  RuleTriggers(report.rule_metrics[k].rule_name)
        /\ TradeCounts(report.confidence_buckets) <= Cardinality(Retained)
        /\ \A k \in DOMAIN report.condition_metrics :
              report.condition_metrics[k].trade_count =
                  RetainedWith(report.condition_metrics[k].condition, ConditionKeys)

\* two analyses with triggered rules: one whose position has no realized
\* return is dropped, the other is kept and is the only trade in the metrics
C6_Witness ==
    /\ report # NoReport
    /\ Len(analyses) = 2
    /\ Cardinality(Retained) = 1
    /\ \E i \in Dropped :
          /\ analyses[i].position_id \in DOMAIN positions_by_id
          /\ analyses[i].entry_rules_evaluated # <<>>
          /\ analyses[i].entry_signal_confidence = Conf(75)
    /\ report.total_trades_analyzed = 2
    /\ TradeCounts(report.signal_type_metrics) = 1

\* C7: the confidence buckets [0, 0.25), [0.25, 0.5), [0.5, 0.75) and
\* [0.75, 1.01) take every kept analysis whose entry confidence is in [0, 1]
\* exactly once, 0 in the first and 1.0 in the last, so that the four trade
\* counts sum to the number of kept analyses.
C7_Confidence(i) == analyses[i].entry_signal_confidence
C7_InUnit == {i \in Retained : 0 <= C7_Confidence(i) /\ C7_Confidence(i) <= ConfScale}
C7_Band(b) ==
    {i \in C7_InUnit :
        /\ (b - 1) * Conf(25) <= C7_Confidence(i)
        /\ IF b = 4 THEN C7_Confidence(i) <= Conf(100) ELSE C7_Confidence(i) < b * Conf(25)}
C7_ConfidenceBucketsPartition ==
    (report # NoReport /\ analyses # <<>>) =>
        /\ Len(report.confidence_buckets) = 4
        /\ \A b \in 1..4 :
              report.confidence_buckets[b].trade_count >= Cardinality(C7_Band(b))
        /\ C7_InUnit = Retained =>
              /\ TradeCounts(report.confidence_buckets) = Cardinality(Retained)
              /\ \A b \in 1..4 :
                    report.confidence_buckets[b].trade_count = Cardinality(C7_Band(b))

\* two kept analyses, one at confidence 0 and one at 1.0: first and last bucket
C7_Witness ==
    /\ report # NoReport
    /\ Cardinality(Retained) = 2
    /\ {C7_Confidence(i) : i \in Retained} = {Conf(0), Conf(100)}
    /\ report.confidence_buckets[1].trade_count = 1
    /\ report.confidence_buckets[4].trade_count = 1

\* ---- batch loops
\* the analyses of the first n positions of the batch whose analysis returned
RECURSIVE C10_Returned(_)
C10_Returned(n) ==
    IF n = 0 THEN <<>>
    ELSE IF passes[n].analysis = "raises" THEN C10_Returned(n - 1)
    ELSE Append(C10_Returned(n - 1), AnalysisOf(batch.positions[n]))

\* C10: in analyze_positions, analyze_unanalyzed and analyze_all an exception
\* raised while one position is analysed never leaves the batch call and never
\* keeps the loop from the later positions: the call returns only after every
\* position was tried, with exactly the analyses of the positions whose
\* analysis returned, in input order.
C10_BatchSurvivesFailures ==
    /\ batch.status = "raised" => passes = <<>>
    /\ batch.status \in {"running", "returned"} =>
          /\ Len(passes) = batch.i - 1
          /\ batch.analyses = C10_Returned(Len(passes))
    /\ batch.status = "returned" => Len(passes) = Len(batch.positions)

\* three positions, the first raises in analysis, the second is analysed and
\* its update meets a connection error, the third goes through
C10_Witness ==
    /\ batch.status = "returned"
    /\ batch.op = "analyze_unanalyzed"
    /\ batch.update_db
    /\ Len(batch.positions) = 3
    /\ passes[1].analysis = "raises"
    /\ passes[2] = [analysis |-> "returns", update |-> "operational_error"]
    /\ passes[3] = [analysis |-> "returns", update |-> "ok"]
    /\ batch.analyses = <<AnalysisOf(batch.positions[2]), AnalysisOf(batch.positions[3])>>

\* ---- deviation report
C11_BothGenerated ==
    /\ deviation_reports[1] # NoDeviationReport
    /\ deviation_reports[2] # NoDeviationReport

\* C11: for two orderings of the same analyses generate_report yields the
\* same ComplianceMetrics, the same worst_deviations and best_compliant lists
\* and the same issues and recommendations.
C11_ReportOrderIndependent ==
    C11_BothGenerated =>
        /\ deviation_reports[1].metrics = deviation_reports[2].metrics
        /\ deviation_reports[1].worst_deviations = deviation_reports[2].worst_deviations
        /\ deviation_reports[1].best_compliant = deviation_reports[2].best_compliant
        /\ deviation_reports[1].common_issues = deviation_reports[2].common_issues
        /\ deviation_reports[1].recommendations = deviation_reports[2].recommendations

\* the part of C11 that does not rest on the ranking: metrics, issues and
\* recommendations are the same for both orderings
C11_ReductionsOrderIndependent ==
    C11_BothGenerated =>
        /\ deviation_reports[1].metrics = deviation_reports[2].metrics
        /\ deviation_reports[1].common_issues = deviation_reports[2].common_issues
        /\ deviation_reports[1].recommendations = deviation_reports[2].recommendations

\* ---- analyze_position
C12_NoEntrySnapshot ==
    trade_analysis # NoAnalysis /\ analysis_input.entry_indicators = EmptyDict

\* the exit-discipline term of the score, by exit type
C12_ExitTerm ==
    IF trade_analysis.exit_type \in {"profit_target", "stop_loss"} THEN (30 * ScoreScale) \div 100
    ELSE IF trade_analysis.exit_type = "trailing_stop" THEN (25 * ScoreScale) \div 100
    ELSE IF trade_analysis.exit_type = "time_based" THEN (20 * ScoreScale) \div 100
    ELSE (10 * ScoreScale) \div 100

\* C12: when no indicator snapshot is available at entry time analyze_position
\* still returns a TradeAnalysis: entry_signal_matched false, no entry signal
\* type, entry confidence 0, size deviation 0, the warning 'No indicator data
\* available at entry time', and a compliance score of the neutral sizing
\* term 0.15 plus the exit-discipline term.
C12_MissingEntryDataDegrades ==
    C12_NoEntrySnapshot =>
        /\ trade_analysis.position_id = analysis_input.position.id
        /\ ~trade_analysis.entry_signal_matched
        /\ trade_analysis.entry_signal_type = NONE
        /\ trade_analysis.entry_signal_confidence = 0
        /\ trade_analysis.position_size_deviation = 0
        /\ \E w \in DOMAIN trade_analysis.warnings :
              trade_analysis.warnings[w].text = "No indicator data available at entry time"
        /\ trade_analysis.rule_compliance_score = (15 * ScoreScale) \div 100 + C12_ExitTerm

\* no entry snapshot, a risk adapter that would recommend 100 shares against
\* 150 held, a profit-target exit: score 0.15 + 0.30
C12_Witness ==
    /\ C12_NoEntrySnapshot
    /\ analysis_input.risk = RiskResult(100)
    /\ analysis_input.position.quantity = 150
    /\ trade_analysis.exit_type = "profit_target"
    /\ trade_analysis.rule_compliance_score = (45 * ScoreScale) \div 100

\* ---- rule evaluator: failing rules and loading
\* the loaded rules that raised in can_evaluate or in evaluate
C13_Raised ==
    {i \in DOMAIN rule_outcomes :
        rule_outcomes[i].kind \in {"raises_can_evaluate", "raises_evaluate"}}
C13_Kept == SelectSeq([i \in DOMAIN rule_outcomes |-> i], LAMBDA i : i \notin C13_Raised)

\* C13: in the external-rule strategy a rule that raises while asked whether
\* it can evaluate or while evaluated does not fail evaluate_at_time; it is in
\* neither the evaluations list nor the BUY or SELL pool, and evaluations,
\* dominant signal and confidence are those of the remaining rules alone.
C13_RaisingRuleDropped ==
    (evalResult # NoEval /\ CalledWithRules) =>
        /\ \A i \in C13_Raised : \A e \in DOMAIN evalResult.evaluations :
              evalResult.evaluations[e].rule_name # rule_evaluator.rules[i]
        /\ \A i \in DOMAIN rule_outcomes \ C13_Raised :
              rule_outcomes[i].kind = "result" =>
                 \E e \in DOMAIN evalResult.evaluations :
                    evalResult.evaluations[e] =
                        RuleEvaluation(rule_evaluator.rules[i], rule_outcomes[i].triggered,
                                       rule_outcomes[i].signal, rule_outcomes[i].confidence)
        /\ Len(evalResult.evaluations) =
              Cardinality({i \in DOMAIN rule_outcomes : rule_outcomes[i].kind = "result"})
        /\ evalResult =
              _evaluate_with_rules([k \in DOMAIN C13_Kept |-> rule_evaluator.rules[C13_Kept[k]]],
                                   [k \in DOMAIN C13_Kept |-> rule_outcomes[C13_Kept[k]]])

\* the first rule raises in evaluate, a later one triggers BUY at 1.0 and is
\* the whole result
C13_Witness ==
    /\ evalResult # NoEval
    /\ CalledWithRules
    /\ rule_outcomes[1].kind = "raises_evaluate"
    /\ \E i \in DOMAIN rule_outcomes : rule_outcomes[i].kind = "raises_can_evaluate"
    /\ Len(evalResult.evaluations) = 1
    /\ evalResult.signal = "BUY"
    /\ evalResult.confidence = Conf(100)

\* the cached remote configuration is consulted and its rules load
C14_RemoteLoads ==
    /\ rules_env.has_decision_engine
    /\ rules_env.use_redis_rules /\ rule_evaluator.rules_client
    /\ rules_env.redis.config /\ rules_env.redis.rules # Null
C14_LocalLoads == rules_env.has_decision_engine /\ rules_env.yaml # Null

\* C14: initialize never raises, returns True and leaves the evaluator
\* initialized; the evaluator holds the rules of the cached remote
\* configuration when that loads, else those of the local configuration file
\* when that loads, else no rules at all, which is the built-in fallback.
C14_InitializeFallsThrough ==
    initialize_returned # Null =>
        /\ initialize_returned = Some(TRUE)
        /\ rule_evaluator.initialized
        /\ rule_evaluator.rules =
              IF C14_RemoteLoads THEN LoadedRules(Val(rules_env.redis.rules))
              ELSE IF C14_LocalLoads THEN LoadedRules(Val(rules_env.yaml))
              ELSE <<>>
        /\ (~C14_RemoteLoads /\ ~C14_LocalLoads) => ~UsesRules(rule_evaluator, rules_env)

\* the remote configuration is there but its rules fail to load, and the
\* local file's rules are the ones held
C14_Witness ==
    /\ initialize_returned = Some(TRUE)
    /\ rules_env.has_decision_engine /\ rules_env.use_redis_rules
    /\ rule_evaluator.rules_client
    /\ rules_env.redis.config /\ rules_env.redis.rules = Null
    /\ rules_env.yaml # Null
    /\ rule_evaluator.rules = LoadedRules(Val(rules_env.yaml))
    /\ Len(rule_evaluator.rules) = 2

\* ---- exit classifier: where the thresholds come from
\* the symbol's override, as the lookup's read of the symbol key returns it
C15_Override ==
    IF rules_store.connected /\ exitErr # "symbol_get"
       /\ "exit_strategy" \in DOMAIN rules_store.symbol_rules[position.symbol]
    THEN Some(rules_store.symbol_rules[position.symbol].exit_strategy)
    ELSE Null
\* the global default, as the lookup's read of the global key returns it
C15_Global ==
    IF rules_store.connected /\ exitErr = "none" THEN rules_store.exit_strategy ELSE Null
C15_Chosen ==
    IF C15_Override # Null THEN Val(C15_Override)
    ELSE IF C15_Global # Null THEN Val(C15_Global)
    ELSE [profit_target |-> 700, stop_loss |-> 500]

\* C15: with a rules source attached the thresholds classify uses for a symbol
\* are those of the symbol's override exit strategy if the source returns
\* one, else those of the global default exit strategy, else 7% and 5%;
\* without a rules source they are the static configuration's
\* profit_target_threshold and stop_loss_threshold.
C15_ThresholdResolution ==
    exitLast.thresholds # Null =>
        LET th == Val(exitLast.thresholds)
        IN IF exit_classifier.rules_client
           THEN /\ "profit_target" \in DOMAIN C15_Chosen => th[1] = C15_Chosen.profit_target
                /\ "stop_loss" \in DOMAIN C15_Chosen => th[2] = -C15_Chosen.stop_loss
           ELSE th = <<exit_classifier.default_profit_threshold,
                       exit_classifier.default_stop_threshold>>

\* the symbol's document carries no exit strategy and the global default is used
C15_Witness ==
    /\ exitLast.thresholds = Some(<<600, -400>>)
    /\ exit_classifier.rules_client
    /\ rules_store.connected
    /\ rules_store.symbol_rules[position.symbol] = [rules |-> 1]
    /\ exitErr = "none"

\* ---- signal-outcome analyzer: per signal type
\* the retained analyses of one signal-type group and their positions
C16_Group(key) == {i \in Retained : key \in SignalKeys[i]}
C16_Position(i) == positions_by_id[analyses[i].position_id]
C16_Returns(key) == {Val(C16_Position(i).realized_pl_pct) : i \in C16_Group(key)}
C16_Highest(key) == CHOOSE r \in C16_Returns(key) : \A q \in C16_Returns(key) : q <= r
C16_Lowest(key) == CHOOSE r \in C16_Returns(key) : \A q \in C16_Returns(key) : r <= q
\* the trade_info dicts of the group's trades with one return
C16_TradesWith(key, ret) ==
    {trade_info(C16_Position(i)) :
        i \in {k \in C16_Group(key) : Val(C16_Position(k).realized_pl_pct) = ret}}

\* the counting half: trade_count = win_count + loss_count = the number of
\* retained pairs in the group, and win_rate = win_count / trade_count
C16_GroupCounts ==
    report # NoReport =>
        \A k \in DOMAIN report.signal_type_metrics :
            LET m == report.signal_type_metrics[k]
            IN /\ m.trade_count = Cardinality(C16_Group(m.signal_type))
               /\ m.trade_count = m.win_count + m.loss_count
               /\ m.trade_count > 0
               /\ m.win_rate * m.trade_count = m.win_count * RateScale

\* C16: in every signal-type group trade_count = win_count + loss_count = the
\* number of retained pairs in that group, win_rate = win_count / trade_count,
\* best_trade is the trade with the highest return and worst_trade the one
\* with the lowest.
C16_SignalTypeGroupMetrics ==
    /\ C16_GroupCounts
    /\ report # NoReport =>
          \A k \in DOMAIN report.signal_type_metrics :
              LET m == report.signal_type_metrics[k]
              IN /\ m.best_trade # Null /\ m.worst_trade # Null
                 /\ Val(m.best_trade) \in
                       C16_TradesWith(m.signal_type, C16_Highest(m.signal_type))
                 /\ Val(m.worst_trade) \in
                       C16_TradesWith(m.signal_type, C16_Lowest(m.signal_type))

\* ---- rule evaluator: the fallback checks
C17_Fallback == evalResult # NoEval /\ ~CalledWithRules
C17_Has(keys) == keys \subseteq DOMAIN entry_indicators
C17_Gives(rule_name, signal, confidence) ==
    \E e \in DOMAIN evalResult.evaluations :
        evalResult.evaluations[e] = RuleEvaluation(rule_name, TRUE, signal, confidence)

\* the five contributions and the single-check scenario, for the snapshots
\* that pass Present
C17_Checks(Present) ==
    (C17_Fallback /\ Present) =>
        /\ (C17_Has({"close", "sma_200"})
              /\ entry_indicators.close > entry_indicators.sma_200)
              => C17_Gives("trend_following", "BUY", Conf(60))
        /\ (C17_Has({"close", "sma_200"})
              /\ entry_indicators.close < entry_indicators.sma_200)
              => C17_Gives("trend_following", "SELL", Conf(50))
        /\ (C17_Has({"sma_50", "sma_200"})
              /\ entry_indicators.sma_50 > entry_indicators.sma_200)
              => C17_Gives("moving_average_crossover", "BUY", Conf(55))
        /\ (C17_Has({"rsi_14"}) /\ entry_indicators.rsi_14 < 30)
              => C17_Gives("rsi_oversold", "BUY", Conf(65))
        /\ (C17_Has({"rsi_14"}) /\ entry_indicators.rsi_14 > 70)
              => C17_Gives("rsi_overbought", "SELL", Conf(60))
        /\ (DOMAIN entry_indicators = {"close", "sma_200"}
              /\ entry_indicators.close > entry_indicators.sma_200)
              => (evalResult.signal = "BUY" /\ evalResult.confidence = Conf(60))

\* C17: in the fallback strategy a check whose inputs are present contributes
\* its fixed evaluation: close > sma_200 a triggered trend_following BUY 0.6
\* (close < sma_200 a SELL 0.5), sma_50 > sma_200 a moving_average_crossover
\* BUY 0.55, rsi_14 < 30 an rsi_oversold BUY 0.65, rsi_14 > 70 an
\* rsi_overbought SELL 0.60; with only close above sma_200 present the
\* dominant signal is BUY with confidence 0.6.
C17_FallbackChecks == C17_Checks(TRUE)

\* the same for the snapshots whose values are all non-zero
C17_FallbackChecksNonZero ==
    C17_Checks(\A k \in DOMAIN entry_indicators : entry_indicators[k] # 0)

\* only close above sma_200: one evaluation, BUY at 0.6
C17_TrendOnly ==
    /\ C17_Fallback
    /\ entry_indicators = [close |-> 150, sma_200 |-> 140]
    /\ evalResult = EvalResult(<<RuleEvaluation("trend_following", TRUE, "BUY", Conf(60))>>,
                               "BUY", Conf(60))

\* ---- runner: shutdown
\* C18: a shutdown request stops a running batch only at a boundary between
\* two positions: no position of the batch is started once the request has
\* arrived, and the request never stops the process while a position is
\* being analysed or persisted.
C18_ShutdownBetweenPositions ==
    /\ shutdown_log.started_after = {}
    /\ shutdown_log.stopped_in \notin {"analysing", "persisting"}

\* what does hold: under the daemon's handler the request never stops the
\* process inside a position, and under main's handler nothing is started
\* after the request
C18_DaemonFinishesPosition ==
    runner.handler = "handle_signal" =>
        shutdown_log.stopped_in \notin {"analysing", "persisting"}
C18_SingleRunStartsNothing ==
    ~runner.daemon => shutdown_log.started_after = {}

\* ---- signal-outcome analyzer: insights
\* the conditions under which _generate_insights says something, read off
\* the report's metrics
C19_BuyGroup ==
    \E k \in DOMAIN report.signal_type_metrics :
        report.signal_type_metrics[k].signal_type = "BUY"
        /\ report.signal_type_metrics[k].trade_count > 0
C19_Bucket(label) ==
    CHOOSE b \in {report.confidence_buckets[k] : k \in DOMAIN report.confidence_buckets} :
        b.range_label = label
C19_ConfidenceCompared ==
    /\ report.confidence_buckets # <<>>
    /\ C19_Bucket("75-100%").trade_count > 0 /\ C19_Bucket("0-25%").trade_count > 0
    /\ \/ C19_Bucket("75-100%").wins * C19_Bucket("0-25%").trade_count
            > C19_Bucket("0-25%").wins * C19_Bucket("75-100%").trade_count
       \/ C19_Bucket("75-100%").trade_count >= 3
C19_RuleRanked ==
    \E k \in DOMAIN report.rule_metrics : report.rule_metrics[k].trigger_count >= 2
C19_PoorRegime ==
    \E k \in DOMAIN report.condition_metrics :
        LET cm == report.condition_metrics[k]
        IN cm.trade_count >= 2 /\ cm.condition \in {"regime:bear", "regime:bull"}
           /\ 10 * cm.wins < 4 * cm.trade_count
C19_Fires == C19_BuyGroup \/ C19_ConfidenceCompared \/ C19_RuleRanked \/ C19_PoorRegime
C19_Insufficient ==
    \E k \in DOMAIN report.key_insights : report.key_insights[k] = InsufficientData

\* C19: analyze always returns at least one insight; the 'insufficient data'
\* insight is there exactly when no other insight condition fires (an empty
\* list of analyses included), and then it is the only insight.
C19_InsufficientDataInsight ==
    report # NoReport =>
        /\ Len(report.key_insights) >= 1
        /\ C19_Insufficient <=> ~C19_Fires
        /\ C19_Insufficient => report.key_insights = <<InsufficientData>>

\* trades were retained, yet nothing fires
C19_Witness ==
    /\ report # NoReport
    /\ Retained # {}
    /\ report.key_insights = <<InsufficientData>>
\* a rule insight alone, without the closing line
C19_WitnessRuleOnly ==
    /\ report # NoReport
    /\ ~C19_BuyGroup /\ C19_RuleRanked
    /\ ~C19_Insufficient

\* ---- exit classifier: the trailing-stop pattern
\* classify got past the profit-target, stop-loss and time-based steps
C20_PastFirstSteps ==
    /\ exitLast.thresholds # Null
    /\ LET pl_pct == Val(position.realized_pl_pct) \div 100
       IN /\ pl_pct < Val(exitLast.thresholds)[1]
          /\ pl_pct > Val(exitLast.thresholds)[2]
          /\ ~(position.holding_days # Null /\ Val(position.holding_days) > 20
               /\ Abs(pl_pct) < 200)
C20_Pattern ==
    LET pl_pct == Val(position.realized_pl_pct) \div 100
    IN /\ -300 < pl_pct /\ pl_pct < 200
       /\ {"atr_14", "close", "high"} \subseteq DOMAIN exit_indicators
       /\ exit_indicators.high - exit_indicators.close <= 2 * exit_indicators.atr_14

C20_Decides(Present) ==
    (C20_PastFirstSteps /\ Present) =>
        exitLast.exit_type = IF C20_Pattern THEN "trailing_stop" ELSE "manual"

\* C20: when none of the profit-target, stop-loss and time-based steps
\* matches, classify returns TRAILING_STOP exactly when the return is strictly
\* between -3% and +2%, the exit indicators contain atr_14, close and high,
\* and high - close <= 2 * atr_14; in every other case it returns MANUAL.
C20_TrailingStopPattern == C20_Decides(TRUE)

\* the same for the snapshots whose values are all non-zero
C20_TrailingStopPatternNonZero ==
    C20_Decides(\A k \in DOMAIN exit_indicators : exit_indicators[k] # 0)

\* a return of 1% with the close 3 below the high and an ATR of 2
C20_TrailingReached ==
    /\ C20_PastFirstSteps
    /\ exitLast.exit_type = "trailing_stop"
    /\ exit_indicators = [atr_14 |-> 2, close |-> 150, high |-> 153]

\* ---- rule evaluator: absent indicators in the fallback
C21_Named(names) ==
    \E e \in DOMAIN evalResult.evaluations : evalResult.evaluations[e].rule_name \in names

\* the crossover and RSI checks, and the snapshot without any consulted key
C21_OtherChecksNeedInputs ==
    C17_Fallback =>
        /\ ~C17_Has({"sma_50", "sma_200"}) => ~C21_Named({"moving_average_crossover"})
        /\ ~C17_Has({"rsi_14"}) => ~C21_Named({"rsi_oversold", "rsi_overbought"})
        /\ (DOMAIN entry_indicators \cap {"close", "sma_200", "sma_50", "rsi_14"} = {})
              => (evalResult.evaluations = <<>> /\ evalResult.signal = NONE)

\* C21: in the fallback strategy an absent indicator is unknown, not zero: a
\* check contributes an evaluation only when all its inputs are present, so a
\* snapshot with sma_200 but no close yields no trend_following evaluation,
\* and a snapshot lacking every consulted indicator yields no evaluations and
\* dominant signal None.
C21_AbsentIsUnknown ==
    /\ C21_OtherChecksNeedInputs
    /\ C17_Fallback =>
          (~C17_Has({"close", "sma_200"}) => ~C21_Named({"trend_following"}))

\* ---- analyze_position: the entry match and its remark
C22_EntryRemarkTexts ==
    {"No clear entry signal at time of purchase", "Entry was against a SELL signal",
     "Entry signal confidence below threshold"}
C22_EntryRemarks ==
    Cardinality({n \in DOMAIN trade_analysis.notes :
                    trade_analysis.notes[n].text \in C22_EntryRemarkTexts})
    + Cardinality({w \in DOMAIN trade_analysis.warnings :
                    trade_analysis.warnings[w].text \in C22_EntryRemarkTexts})

\* C22: analyze_position sets entry_signal_matched exactly when entry
\* indicators were available, the dominant signal is BUY and its confidence is
\* at or above min_signal_confidence (0.50); an unmatched entry gets exactly
\* one entry remark (no clear signal, against a SELL signal, or confidence
\* below threshold), a matched one none.
C22_EntryMatchAndRemark ==
    trade_analysis # NoAnalysis =>
        /\ trade_analysis.entry_signal_matched <=>
              /\ analysis_input.entry_indicators # EmptyDict
              /\ trade_analysis.entry_signal_type = "BUY"
              /\ trade_analysis.entry_signal_confidence * 100 >= 50 * ConfScale
        /\ C22_EntryRemarks = IF trade_analysis.entry_signal_matched THEN 0 ELSE 1

\* a BUY below the threshold: unmatched, with the confidence remark alone
C22_Witness ==
    /\ trade_analysis # NoAnalysis
    /\ trade_analysis.entry_signal_type = "BUY"
    /\ ~trade_analysis.entry_signal_matched
    /\ C22_EntryRemarks = 1
    /\ \E n \in DOMAIN trade_analysis.notes :
          trade_analysis.notes[n].text = "Entry signal confidence below threshold"
\* a matched BUY
C22_WitnessMatched ==
    /\ trade_analysis # NoAnalysis
    /\ trade_analysis.entry_signal_matched
    /\ C22_EntryRemarks = 0

\* ---- condition buckets: which RSI reading places a pair
\* the reading the pair is placed by: the analysis's own when it has one,
\* only otherwise the one persisted with the position
C23_Rsi(i) ==
    IF "rsi" \in DOMAIN analyses[i].risk_metrics THEN Some(analyses[i].risk_metrics["rsi"])
    ELSE Get(C16_Position(i).risk_metrics_at_entry, "rsi_14")
C23_RsiLabels(i) ==
    IF C23_Rsi(i) = Null \/ Val(C23_Rsi(i)) \notin 0..100 THEN {}
    ELSE IF Val(C23_Rsi(i)) < 30 THEN {"rsi:oversold"}
    ELSE IF Val(C23_Rsi(i)) < 70 THEN {"rsi:neutral"}
    ELSE {"rsi:overbought"}
C23_RegimeLabels(i) ==
    IF "regime" \in DOMAIN C16_Position(i).risk_metrics_at_entry
    THEN {"regime:" \o C16_Position(i).risk_metrics_at_entry["regime"]}
    ELSE {}
C23_Labels(i) == C23_RsiLabels(i) \cup C23_RegimeLabels(i)
C23_AllLabels == UNION {C23_Labels(i) : i \in Retained}
C23_Reported == {report.condition_metrics[k].condition : k \in DOMAIN report.condition_metrics}

\* C23: each retained pair is counted in at most one RSI bucket (below 30
\* oversold, 30 up to 70 neutral, 70 and above overbought), placed by the
\* analysis's risk-metrics RSI whenever it has one and only otherwise by the
\* RSI persisted with the position, and additionally in regime:<value> when
\* the position's persisted entry metrics carry a regime.
C23_ConditionBuckets ==
    report # NoReport /\ analyses # <<>> =>
        /\ C23_Reported = C23_AllLabels
        /\ \A k \in DOMAIN report.condition_metrics :
              report.condition_metrics[k].trade_count =
                  Cardinality({i \in Retained :
                                  report.condition_metrics[k].condition \in C23_Labels(i)})

\* the regime half alone, and at most one RSI bucket a pair
C23_RegimeAndOneBucket ==
    report # NoReport /\ analyses # <<>> =>
        /\ \A i \in Retained :
              Cardinality(ConditionsOf([analysis |-> analyses[i],
                                        position |-> C16_Position(i)])
                          \ C23_RegimeLabels(i)) <= 1
        /\ \A i \in Retained :
              C23_RegimeLabels(i) \subseteq C23_Reported

\* ---- generate_report: the five worst and the five best
C24_Ids(l) == {l[i].position_id : i \in DOMAIN l}
\* sign 1: ascending, the lowest scores; sign -1: descending, the highest
C24_Ranked(l, sign) ==
    /\ Len(l) = Min(5, Len(ranked_batch))
    /\ \A i \in DOMAIN l : l[i] \in {ranked_batch[k] : k \in DOMAIN ranked_batch}
    /\ Cardinality(C24_Ids(l)) = Len(l)
    /\ \A i, j \in DOMAIN l :
          i < j => sign * l[i].rule_compliance_score <= sign * l[j].rule_compliance_score
    /\ \A k \in DOMAIN ranked_batch :
          ranked_batch[k].position_id \notin C24_Ids(l) =>
              \A i \in DOMAIN l :
                  sign * l[i].rule_compliance_score
                      <= sign * ranked_batch[k].rule_compliance_score

\* C24: for a batch of n analyses generate_report sets worst_deviations to the
\* min(5, n) lowest-scoring analyses in ascending score order and
\* best_compliant to the min(5, n) highest-scoring ones in descending order;
\* no analysis outside worst_deviations scores lower than one inside it and
\* none outside best_compliant scores higher than one inside it.
C24_WorstAndBest ==
    ranked_report # NoDeviationReport =>
        /\ C24_Ranked(ranked_report.worst_deviations, 1)
        /\ C24_Ranked(ranked_report.best_compliant, -1)

\* more than five analyses of differing scores: both lists cut at five
C24_Witness ==
    /\ ranked_report # NoDeviationReport
    /\ Len(ranked_batch) > 5
    /\ Len(ranked_report.worst_deviations) = 5
    /\ Len(ranked_report.best_compliant) = 5
    /\ ranked_report.worst_deviations[1].rule_compliance_score
          < ranked_report.worst_deviations[5].rule_compliance_score
    /\ ranked_report.best_compliant[1].rule_compliance_score
          > ranked_report.worst_deviations[1].rule_compliance_score

\* ---- generate_report: the counts partition the batch
\* C29: for a non-empty batch of n analyses the five compliance-level counts
\* sum to n, entries_with_buy_signal + entries_without_signal = n, and the
\* profit-target, stop-loss, manual and other exit counts sum to n.
C29_CountsPartitionBatch ==
    ranked_report # NoDeviationReport /\ ranked_batch # <<>> =>
        LET m == ranked_report.metrics
            n == Len(ranked_batch)
        IN /\ m.total_positions = n
           /\ m.excellent_count + m.good_count + m.fair_count + m.poor_count
                 + m.non_compliant_count = n
           /\ m.entries_with_buy_signal + m.entries_without_signal = n
           /\ m.profit_target_exits + m.stop_loss_exits + m.manual_exits + m.other_exits = n

\* a batch of six spread over several levels, with and without a signal, and
\* an exit that is none of the three named ones
C29_Witness ==
    /\ ranked_report # NoDeviationReport
    /\ Len(ranked_batch) = MaxBatch
    /\ ranked_report.metrics.other_exits > 0
    /\ ranked_report.metrics.manual_exits > 0
    /\ ranked_report.metrics.entries_with_buy_signal > 0
    /\ ranked_report.metrics.entries_without_signal > 0
    /\ ranked_report.metrics.excellent_count > 0
    /\ ranked_report.metrics.non_compliant_count > 0

\* ---- RulesClient.get_config: the 60-second window
C25_Called == config_call.op = "get_config"
\* the value cached before the call is younger than 60 seconds
C25_Young ==
    /\ config_call.before.cache_time # Null
    /\ config_call.now - Val(config_call.before.cache_time) < 60
C25_ReadSucceeded == config_call.read /\ config_call.redis_get.kind = "data"
\* what the sentence says of one call
C25_Window ==
    /\ ~config_call.read => C25_Young /\ ~config_call.force_refresh
    /\ ~(C25_Young /\ ~config_call.force_refresh) => config_call.read
    /\ ~config_call.read =>
          /\ config_call.returned = config_call.before.config_cache
          /\ config_call.after = config_call.before
    /\ C25_ReadSucceeded =>
          /\ config_call.after.config_cache = Some(config_call.redis_get.config)
          /\ config_call.after.cache_time = Some(config_call.now)
          /\ config_call.returned = config_call.after.config_cache
    /\ config_call.read /\ ~C25_ReadSucceeded =>
          /\ config_call.after = config_call.before
          /\ config_call.returned = config_call.before.config_cache
    /\ ~config_call.raised

\* C25 (as stated): get_config returns the cached value without reading the
\* remote store only while that value is younger than 60 seconds and no
\* refresh is forced; otherwise it reads the store, on success replacing the
\* value and its fetch time, and keeps the old value, without raising, only
\* if the read fails or returns nothing.
C25_StalenessBounded == C25_Called => C25_Window

\* C25 (amended): the same of a connected client; a client that is not
\* connected, never or no longer, returns what it holds without reading,
\* whatever its age and even when a refresh is forced.
C25_ConnectedStalenessBounded ==
    C25_Called =>
        /\ config_call.before.redis => C25_Window
        /\ ~config_call.before.redis =>
              /\ ~config_call.read /\ ~config_call.raised
              /\ config_call.after = config_call.before
              /\ config_call.returned = config_call.before.config_cache

\* a connected client whose value turned 60 seconds old reads the store again
\* and replaces value and fetch time
C25_Witness ==
    /\ C25_Called
    /\ config_call.before.redis
    /\ ~config_call.force_refresh
    /\ config_call.before.config_cache = Some(RulesConfig(1))
    /\ config_call.now - Val(config_call.before.cache_time) = 60
    /\ config_call.read
    /\ config_call.after.config_cache = Some(RulesConfig(2))
    /\ config_call.after.cache_time = Some(config_call.now)
\* a value 59 seconds old is returned without a read
C25_WitnessCached ==
    /\ C25_Called
    /\ config_call.before.redis
    /\ config_call.before.cache_time # Null
    /\ config_call.now - Val(config_call.before.cache_time) = 59
    /\ ~config_call.read
    /\ config_call.returned = Some(RulesConfig(1))
\* a closed client hands out a value older than the window
C25_WitnessClosed ==
    /\ C25_Called
    /\ ~config_call.before.redis
    /\ config_call.before.cache_time # Null
    /\ config_call.now - Val(config_call.before.cache_time) > 60
    /\ config_call.returned = Some(RulesConfig(1))

\* ---- a rerun's update of the persisted analysis
C26_Updated == persist_call.op = "_update_position" /\ persist_call.ok
C26_Latest == persist_call.analysis
\* C26: after a successful update from a new analysis all eight persisted
\* analysis columns hold the values of that latest analysis (the notes column
\* its notes and warnings joined), an empty risk-metrics map or an empty note
\* list being stored as null; none keeps a value from an earlier run.
C26_RerunOverwritesInFull ==
    C26_Updated =>
        /\ journal_row.rule_compliance_score = Some(C26_Latest.rule_compliance_score)
        /\ journal_row.entry_signal_confidence = Some(C26_Latest.entry_signal_confidence)
        /\ journal_row.entry_signal_type = C26_Latest.entry_signal_type
        /\ journal_row.position_size_deviation = Some(C26_Latest.position_size_deviation)
        /\ journal_row.exit_type = Some(C26_Latest.exit_type)
        /\ journal_row.risk_metrics_at_entry =
              IF C26_Latest.risk_metrics = EmptyDict THEN Null
              ELSE Some(JsonDumps(C26_Latest.risk_metrics))
        /\ journal_row.analysis_notes =
              IF C26_Latest.notes \o C26_Latest.warnings = <<>> THEN Null
              ELSE Some(Join(C26_Latest.notes \o C26_Latest.warnings))
        /\ journal_row.analyzed_at = Some(persist_call.now)

\* a rerun with no notes, no metrics and no signal over a row that had all three
C26_Witness ==
    /\ C26_Updated
    /\ persist_call.before.analysis_notes # Null
    /\ persist_call.before.risk_metrics_at_entry # Null
    /\ persist_call.before.entry_signal_type # Null
    /\ C26_Latest.notes \o C26_Latest.warnings = <<>>
    /\ journal_row.analysis_notes = Null
    /\ journal_row.risk_metrics_at_entry = Null
    /\ journal_row.entry_signal_type = Null
    /\ journal_row.analyzed_at # persist_call.before.analyzed_at

\* ---- batch loops: what is returned against what was written
\* the positions of the batch whose analysis columns the journal holds
C28_Written == {id \in {batch.positions[k] : k \in DOMAIN batch.positions} : id \in journal.analyzed}
\* C28: when analyze_unanalyzed or analyze_all runs with update_db=True, every
\* analysis of the returned list has been written to the repository, and the
\* number returned never exceeds the number of positions updated in that run.
C28_ReturnedWereWritten ==
    batch.status = "returned" /\ Persists(batch) =>
        /\ \A k \in DOMAIN batch.analyses : batch.analyses[k].position_id \in journal.analyzed
        /\ Len(batch.analyses) <= Cardinality(C28_Written)

\* what does hold: the positions written are among those returned
C28_WrittenWereReturned ==
    batch.status = "returned" /\ Persists(batch) /\ batch.op = "analyze_unanalyzed" =>
        C28_Written \subseteq {batch.analyses[k].position_id : k \in DOMAIN batch.analyses}

\* ---- ReportingRunner.shutdown: called from the handler and from finally
\* C27: however many times ReportingRunner.shutdown is called, and also when
\* the signal handler's call interleaves with the call in main()'s finally
\* clause, TradeAnalyzer.shutdown is started at most once.
C27_ShutdownStartedOnce == analyzer_shutdowns <= 1

\* a handler interrupted main's call between its test of the flag and its
\* assignment, and is running TradeAnalyzer.shutdown itself
C27_Witness ==
    /\ call_stack = <<Frame("main", "set"), Frame("_handle_shutdown", "analyzer.shutdown")>>
    /\ shutdown_called
    /\ analyzer_shutdowns = 1
\* a handler arrived while main's call was inside TradeAnalyzer.shutdown
C27_WitnessDuringCleanup ==
    /\ Len(call_stack) = 2
    /\ call_stack[1] = Frame("main", "analyzer.shutdown")
    /\ call_stack[2] = Frame("_handle_shutdown", "return")
    /\ analyzer_shutdowns = 1

\* ---- daemon mode: the loop ends after a signal
C30_SignalHandled ==
    runner.daemon /\ runner.handler = "handle_signal" /\ shutdown_log.requested
\* C30: in daemon mode, once SIGTERM or SIGINT has been handled, _run_daemon
\* eventually returns, whatever the loop was doing when the signal arrived
\* (running a batch, sleeping between runs, backing off after a failed
\* reconnect or an error), provided each run and database call terminates.
C30_DaemonReturnsAfterSignal == C30_SignalHandled ~> control = "returned"

\* only the flag ends the loop: before a signal the daemon has not returned
C30_DaemonRunsUntilSignal ==
    runner.daemon /\ control = "returned" => shutdown_log.requested

\* the daemon returned after a signal
C30_Witness == C30_SignalHandled /\ control = "returned"
\* the signal handled, the loop in a batch, asleep, and backing off
C30_WitnessBatch == C30_SignalHandled /\ control = "batch" /\ run_batch.phase = "analysing"
C30_WitnessSleeping == C30_SignalHandled /\ control = "sleeping"
C30_WitnessBackoff == C30_SignalHandled /\ control = "backoff"

====
